---- MODULE Spec2Model ----
(***************************************************************************)
(* The concurrent bid-processing pipeline of live_auction_bidding:         *)
(*   BidQueue   (app/infrastructure/queue.py)     Redis list + bid_meta    *)
(*   AuctionLock (app/infrastructure/lock.py)     SET NX PX + Lua unlock   *)
(*   BaseCache / CacheManager (app/infrastructure/cache)  cache-aside      *)
(*   BidWorker  (worker/bid_worker.py)            the orchestrator         *)
(*                                                                         *)
(* Redis keys are modelled as functions whose DOMAIN is the set of keys    *)
(* that exist: a key that expired or was deleted is outside the domain.    *)
(* An optional Python value (None or x) is the sequence <<>> or <<x>>.     *)
(* Every Redis command and every SQL statement/commit is one atomic step;  *)
(* a method that issues several of them may be interleaved between them.   *)
(*                                                                         *)
(* BidWorker.__init__ binds self.cache to AuctionCache, and line 179 calls *)
(* self.cache.invalidate_auction_with_bids; the only definition of that    *)
(* name in the repository is CacheManager.invalidate_auction_with_bids,    *)
(* which is what the worker's invalidation step is modelled from.          *)
(***************************************************************************)
EXTENDS Integers, Sequences, FiniteSets, TLC

\* ------------------------------------------------------------------ bounds
MaxRequests == 2        \* enqueue_bid calls explored
MaxTime == 1            \* clock values 0..MaxTime
MaxReads == 2           \* BaseCache.get calls explored per reader
MaxEnqueues == 3        \* enqueue_bid calls explored when the queue is driven directly
MaxLockCalls == 3       \* AuctionLock.lock calls explored when the lock is driven directly
MaxConnects == 3        \* add_connection calls explored
MaxPublishes == 2       \* publish_to_auction calls explored when the bus is driven directly
MaxCalls == 3           \* direct calls of BidQueue methods other than enqueue_bid
MaxCacheCalls == 2      \* calls of BaseCache methods explored when the cache is driven directly
MaxCacheRequests == 1   \* enqueue_bid calls explored when the cache is driven directly
MaxIds == 2             \* longest id list passed to get_many / invalidate_many
MaxLive == 2            \* requests alive at once (queued, in process or with metadata) when producers never stop

\* ------------------------------------------------------- program constants
max_retries == 10       \* AuctionLock.max_retries
StartingPrice == 100    \* the auction the tests create
MinIncrement == 10

Auctions == {1}
Users == {1, 2}
Amounts == {110, 120}
AcceptAmounts == {105, 110, 115, 120}     \* amounts around the acceptance threshold
Workers == {"w1", "w2"}
Readers == {"r1"}
Procs == {"p1", "p2"}     \* server processes, one PubSubManager each
Channels == {1, 2}        \* auction ids that observers watch
QueueAuctions == {1, 2}   \* the auctions whose queues are driven directly
Statuses == {"QUEUED", "PROCESSING", "SUCCESS", "REJECTED"}
CacheAuctions == {1, 2}   \* the auctions in the store when the cache is driven directly
CacheIds == {1, 2, 3}     \* the ids asked for; the store has no auction 3

VARIABLES
    now,            \* datetime.now()
    auctions,       \* table auctions: auction_id -> row
    bids,           \* table bids, in commit order
    bid_queue,      \* Redis lists bid_queue:{auction_id}; head is index 1
    bid_meta,       \* Redis keys bid_meta:{bid_id}
    auction_lock,   \* Redis keys auction:lock:{auction_id}
    cache,          \* Redis keys auction:{auction_id}
    published,      \* messages published on channel auction:{auction_id}
    uuid,           \* number of uuid4() values drawn so far
    budget,         \* how many uuid4() values the run may draw
    ppc, pdata,     \* the producer inside enqueue_bid
    pc, wauction, bid_data, lock_token, attempt, loaded, error, result,
                    \* each BidWorker: position and locals
    rpc, rauction, rdata, reads, returned,
                    \* each cache reader inside BaseCache.get
    enqLog, deqLog, \* history: bid ids in LPUSH order / BRPOP order
    effects,        \* history: what processing each request changed
    timedOut,       \* history: requests whose acquire raised TimeoutError
    lastRelease,    \* history: the last direct AuctionLock.release call
    floor,          \* history: per reader, highest SUCCESS amount at read start
    active_connections, \* per process: auction_id -> set of local WebSockets
    subscriptions,  \* per process: self.subscriptions (auction ids of the channels)
    channel_subs,   \* Redis: the channels each process's pubsub connection is subscribed to
    inbox,          \* per process: messages Redis has sent to its pubsub connection
    subscribing,    \* per process: add_connection calls awaiting pubsub.subscribe
    unsub_tasks,    \* per process and auction: unsubscribe tasks created, not yet started
    unsub_await,    \* per process and auction: unsubscribe tasks awaiting pubsub.unsubscribe
    connects,       \* number of WebSockets accepted so far (the next socket's identity)
    delivered,      \* history: per WebSocket, the message ids it was sent by send_json
    pubLog,         \* history: the publications, with the observers registered then
    hits, misses,   \* BaseCache.hits and BaseCache.misses of the auction cache
    lastCall,       \* history: the last direct call of a BidQueue or BaseCache method
    running,        \* each BidWorker: self.running
    broadcast       \* per process: the _broadcast_to_local_websockets call in progress

storeVars == <<now, auctions, bids>>
redisVars == <<bid_queue, bid_meta, auction_lock, cache, published, uuid, budget>>
producerVars == <<ppc, pdata>>
workerVars == <<pc, wauction, bid_data, lock_token, attempt, loaded, error, result>>
readerVars == <<rpc, rauction, rdata, reads, returned, floor>>
historyVars == <<enqLog, deqLog, effects, timedOut, lastRelease>>
pubsubVars == <<active_connections, subscriptions, channel_subs, inbox, subscribing,
                unsub_tasks, unsub_await, connects, delivered, pubLog>>
pipelineVars == <<storeVars, redisVars, producerVars, workerVars, readerVars, historyVars>>
apiVars == <<hits, misses, lastCall, running, broadcast>>
vars == <<pipelineVars, pubsubVars, apiVars>>

\* ----------------------------------------------------------------- helpers
Some(x) == <<x>>
NoValue == <<>>

\* models/auction.py:23-33: an auction row (Auction.to_dict is the same
\* record), restricted to the columns the core reads; the test auction's
\* prices, and an end_time one tick before the last clock value
AuctionRow(status, price, winner, total) ==
    [status |-> status, current_price |-> price,
     current_winner_id |-> winner, total_bids |-> total,
     starting_price |-> StartingPrice, min_increment |-> MinIncrement,
     end_time |-> MaxTime - 1]

\* the dict enqueue_bid builds (timestamp omitted; status is always QUEUED)
BidData(id, a, u, amt) ==
    [bid_id |-> id, auction_id |-> a, user_id |-> u, bid_amount |-> amt]

Meta(d, status, res) ==
    [bid_id |-> d.bid_id, auction_id |-> d.auction_id, user_id |-> d.user_id,
     bid_amount |-> d.bid_amount, status |-> status, result |-> res]

ErrorResult(msg) == [success |-> FALSE, error |-> msg, bid_amount |-> 0, current_price |-> 0]
SuccessResult(amt, price) == [success |-> TRUE, error |-> "", bid_amount |-> amt, current_price |-> price]

\* f with key k removed / set
Del(f, k) == [x \in DOMAIN f \ {k} |-> f[x]]
Put(f, k, v) == [x \in DOMAIN f \cup {k} |-> IF x = k THEN v ELSE f[x]]

NoBid == BidData(0, 0, 0, 0)
EmptyMap == [x \in {} |-> 0]

\* history: call number n was op(arg) and returned ret
Call(n, op, arg, ret) == [n |-> n, op |-> op, arg |-> arg, ret |-> ret]

\* no _broadcast_to_local_websockets call is in progress and none was made
NoBroadcast ==
    [stage |-> "idle", channel |-> 0, id |-> 0, connections |-> {}, todo |-> {},
     disconnected |-> {}]

\* the state after construction, with the auctions As in the store and n
\* uuid4() values to draw
InitOver(n, As) ==
    /\ budget = n
    /\ now = 0
    /\ auctions = [a \in As |-> AuctionRow("ACTIVE", StartingPrice, 0, 0)]
    /\ bids = <<>>
    /\ bid_queue = [a \in As |-> <<>>]
    /\ bid_meta = EmptyMap
    /\ auction_lock = EmptyMap
    /\ cache = EmptyMap
    /\ published = [a \in As |-> <<>>]
    /\ uuid = 0
    /\ ppc = "idle"
    /\ pdata = NoBid
    /\ pc = [w \in Workers |-> "idle"]
    /\ wauction = [w \in Workers |-> 0]
    /\ bid_data = [w \in Workers |-> NoBid]
    /\ lock_token = [w \in Workers |-> 0]
    /\ attempt = [w \in Workers |-> 0]
    /\ loaded = [w \in Workers |-> NoValue]
    /\ error = [w \in Workers |-> NoValue]
    /\ result = [w \in Workers |-> NoValue]
    /\ rpc = [r \in Readers |-> "idle"]
    /\ rauction = [r \in Readers |-> 0]
    /\ rdata = [r \in Readers |-> NoValue]
    /\ reads = [r \in Readers |-> 0]
    /\ returned = [r \in Readers |-> NoValue]
    /\ floor = [r \in Readers |-> 0]
    /\ enqLog = [a \in As |-> <<>>]
    /\ deqLog = [a \in As |-> <<>>]
    /\ effects = EmptyMap
    /\ timedOut = {}
    /\ lastRelease = NoValue
    /\ active_connections = [p \in Procs |-> EmptyMap]
    /\ subscriptions = [p \in Procs |-> {}]
    /\ channel_subs = [p \in Procs |-> {}]
    /\ inbox = [p \in Procs |-> <<>>]
    /\ subscribing = [p \in Procs |-> {}]
    /\ unsub_tasks = [p \in Procs |-> [x \in Channels |-> 0]]
    /\ unsub_await = [p \in Procs |-> [x \in Channels |-> 0]]
    /\ connects = 0
    /\ delivered = <<>>
    /\ pubLog = <<>>
    /\ hits = 0
    /\ misses = 0
    /\ lastCall = Call(0, "", <<>>, <<>>)
    /\ running = [w \in Workers |-> TRUE]
    /\ broadcast = [p \in Procs |-> NoBroadcast]

InitWith(n) == InitOver(n, Auctions)

Init == InitWith(MaxRequests)

\* the value stored under a key, as an optional value
Get(f, k) == IF k \in DOMAIN f THEN Some(f[k]) ELSE NoValue

\* ------------------------------------------------------------- BidQueue
\* mutant of queue_key: one list for all auctions
queue_key_Shared(a) == 1

\* queue.py:76, 126, 241: f"bid_queue:{auction_id}", the list of one auction
queue_key(a) == a

\* mutant of lpush: the list is overwritten by the new element
lpush_Replace(q, x) == <<x>>

\* mutant of lpush: RPUSH, adding at the end BRPOP takes from
lpush_AtTail(q, x) == q \o <<x>>

\* queue.py:79: LPUSH adds at the head of the list
lpush(q, x) == <<x>> \o q

\* mutant of brpop_rest: the tail element is read and left on the list
brpop_rest_Peek(q) == q

\* queue.py:134: BRPOP takes the element at the tail of the list
brpop_value(q) == q[Len(q)]
brpop_rest(q) == SubSeq(q, 1, Len(q) - 1)

\* queue.py:58-79: draw the bid id, build bid_data, LPUSH it at the head
Lpush(a, u, amt) ==
    /\ ppc = "idle"
    /\ uuid < budget
    /\ uuid' = uuid + 1
    /\ pdata' = BidData(uuid + 1, a, u, amt)
    /\ bid_queue' = [bid_queue EXCEPT ![queue_key(a)] = lpush(@, pdata')]
    /\ enqLog' = [enqLog EXCEPT ![a] = Append(@, uuid + 1)]
    /\ ppc' = "setex"
    /\ UNCHANGED <<pubsubVars, apiVars, storeVars, bid_meta, auction_lock, cache, published, budget,
                   workerVars, readerVars, deqLog, effects, timedOut, lastRelease>>

\* queue.py:85-95: SETEX bid_meta:{bid_id} with status QUEUED, return bid_id
SetexMeta ==
    /\ ppc = "setex"
    /\ bid_meta' = Put(bid_meta, pdata.bid_id, Meta(pdata, "QUEUED", NoValue))
    /\ ppc' = "idle"
    /\ pdata' = NoBid
    /\ UNCHANGED <<pubsubVars, apiVars, storeVars, bid_queue, auction_lock, cache, published, uuid, budget,
                   workerVars, readerVars, historyVars>>

\* queue.py:172-179: GET bid_meta:{bid_id}: the stored dict, or None when the
\* key does not exist
get_bid_status(meta, id) == Get(meta, id)

\* queue.py:241-244: LLEN of the auction's list
get_queue_length(queues, a) == Len(queues[queue_key(a)])

\* queue.py:209: `if result:` is false for None and for an empty dict
Truthy(res) == res # NoValue /\ res[1] # EmptyMap

\* mutant of update_bid_status: a missing entry is created
update_bid_status_Upsert(meta, id, status, res) ==
    Put(meta, id,
        IF id \in DOMAIN meta
        THEN [meta[id] EXCEPT !.status = status,
                              !.result = IF Truthy(res) THEN res ELSE @]
        ELSE [bid_id |-> id, auction_id |-> 0, user_id |-> 0, bid_amount |-> 0,
              status |-> status, result |-> res])

\* queue.py:182-218: GET the metadata; when it exists set status, set result
\* when the argument is truthy, and SETEX it back; when it does not exist do
\* nothing. The argument res is None (<<>>) or a dict (<<d>>).
update_bid_status(meta, id, status, res) ==
    IF get_bid_status(meta, id) # NoValue
    THEN Put(meta, id, [meta[id] EXCEPT !.status = status,
                                        !.result = IF Truthy(res) THEN res ELSE @])
    ELSE meta

\* ------------------------------------------------------------ AuctionLock
\* mutant of unlock_script: a plain DEL of the key, whoever holds it
unlock_script_Unchecked(lock, a, tok) == Del(lock, a)

\* lock.py:17-24, 54-59: the Lua script: DEL only when the stored value is
\* the caller's token
unlock_script(lock, a, tok) ==
    IF a \in DOMAIN lock /\ lock[a] = tok THEN Del(lock, a) ELSE lock

\* lock.py:37-42: SET key token NX PX: stores the token only when the key is
\* absent
set_nx(lock, a, tok) == IF a \in DOMAIN lock THEN lock ELSE Put(lock, a, tok)

\* mutant of acquire_return: the count of passes instead of the count of
\* failed passes
acquire_return_PassCount(tok, att) == [request_id |-> tok, retry_count |-> att + 1]

\* lock.py:45: what acquire returns to its caller (the key is the auction's)
acquire_return(tok, att) == [request_id |-> tok, retry_count |-> att]

\* mutant of acquire_outcome: one pass more than max_retries
acquire_outcome_ExtraPass(lock, a, att) ==
    IF a \notin DOMAIN lock THEN "acquired"
    ELSE IF att < max_retries THEN "retry"
    ELSE "timeout"

\* lock.py:36-52: how the pass of the retry loop numbered att ends
acquire_outcome(lock, a, att) ==
    IF a \notin DOMAIN lock THEN "acquired"
    ELSE IF att < max_retries - 1 THEN "retry"
    ELSE "timeout"

\* -------------------------------------------------------------- BaseCache
\* mutant of invalidate: the entry is overwritten with an empty value
invalidate_WriteEmpty(c, id) == Put(c, id, NoValue)

\* base_cache.py:227-238: DEL auction:{id}
invalidate(c, id) == Del(c, id)

\* ---------------------------------------------------------------- BidWorker
ResetLocals(w) ==
    /\ bid_data' = [bid_data EXCEPT ![w] = NoBid]
    /\ lock_token' = [lock_token EXCEPT ![w] = 0]
    /\ attempt' = [attempt EXCEPT ![w] = 0]
    /\ loaded' = [loaded EXCEPT ![w] = NoValue]
    /\ error' = [error EXCEPT ![w] = NoValue]
    /\ result' = [result EXCEPT ![w] = NoValue]

AddEffect(w, e) == effects' = [effects EXCEPT ![bid_data[w].bid_id] = @ \cup {e}]

\* bid_worker.py:247-267: run(), its running flag set, finds an ACTIVE auction
\* whose queue is not empty and calls process_auction_queue for it
EnterQueue(w, a) ==
    /\ pc[w] = "idle"
    /\ running[w]
    /\ a \in DOMAIN auctions
    /\ auctions[a].status = "ACTIVE"
    /\ get_queue_length(bid_queue, a) > 0
    /\ pc' = [pc EXCEPT ![w] = "dequeue"]
    /\ wauction' = [wauction EXCEPT ![w] = a]
    /\ UNCHANGED <<pubsubVars, apiVars, storeVars, redisVars, producerVars, bid_data, lock_token, attempt,
                   loaded, error, result, readerVars, historyVars>>

\* queue.py:129-145 (BRPOP pops the tail) and bid_worker.py:160-165. The token
\* of lock.py:34 is a fresh uuid4 per acquire call; one acquire call is made
\* per dequeued request, so the request's unique id stands for the token.
\* The worker is at position `at`.
DequeueStep(w, logged, at) ==
    /\ pc[w] = at
    /\ LET a == wauction[w]
           q == bid_queue[queue_key(a)]
       IN IF Len(q) > 0
          THEN /\ bid_queue' = [bid_queue EXCEPT ![queue_key(a)] = brpop_rest(q)]
               /\ bid_data' = [bid_data EXCEPT ![w] = brpop_value(q)]
               /\ deqLog' = IF logged
                            THEN [deqLog EXCEPT ![a] = Append(@, brpop_value(q).bid_id)]
                            ELSE deqLog
               /\ effects' = Put(effects, brpop_value(q).bid_id, {})
               /\ lock_token' = [lock_token EXCEPT ![w] = brpop_value(q).bid_id]
               /\ attempt' = [attempt EXCEPT ![w] = 0]
               /\ pc' = [pc EXCEPT ![w] = "acquire"]
               /\ UNCHANGED wauction
          ELSE /\ pc' = [pc EXCEPT ![w] = "idle"]
               /\ wauction' = [wauction EXCEPT ![w] = 0]
               /\ UNCHANGED <<bid_queue, bid_data, deqLog, effects, lock_token, attempt>>
    /\ UNCHANGED <<pubsubVars, apiVars, storeVars, bid_meta, auction_lock, cache, published, uuid, budget,
                   producerVars, loaded, error, result, readerVars,
                   enqLog, timedOut, lastRelease>>

\* bid_worker.py:158-160: the loop test and the dequeue_bid call as one step
\* (nothing clears the flag between them), with the bid id appended to the
\* dequeue history
Dequeue(w) == running[w] /\ DequeueStep(w, TRUE, "dequeue")

\* lock.py:36-52: one pass of the retry loop: SET NX PX; on success leave with
\* retry_count = attempt, otherwise sleep and retry, and after the last
\* attempt raise TimeoutError, which bid_worker.py:208 catches
Acquire(w) ==
    /\ pc[w] = "acquire"
    /\ LET a == wauction[w]
           how == acquire_outcome(auction_lock, a, attempt[w])
       IN /\ auction_lock' = set_nx(auction_lock, a, lock_token[w])
          /\ attempt' = [attempt EXCEPT ![w] = IF how = "retry" THEN @ + 1 ELSE @]
          /\ pc' = [pc EXCEPT ![w] = CASE how = "acquired" -> "process"
                                       [] how = "retry" -> "acquire"
                                       [] how = "timeout" -> "set_rejected"]
          /\ error' = [error EXCEPT ![w] =
                          IF how = "timeout" THEN Some("Could not acquire lock") ELSE @]
          /\ timedOut' = IF how = "timeout" THEN timedOut \cup {bid_data[w].bid_id}
                         ELSE timedOut
    /\ UNCHANGED <<pubsubVars, apiVars, storeVars, bid_queue, bid_meta, cache, published, uuid, budget, producerVars,
                   wauction, bid_data, lock_token, loaded, result, readerVars,
                   enqLog, deqLog, effects, lastRelease>>

\* bid_worker.py:112: f"${required_bid:.2f}" for the whole amounts of the model
Money(x) == "$" \o ToString(x) \o ".00"

\* bid_worker.py:110-112: the message naming the required minimum
BidTooLow(required_bid) == "Bid must be at least " \o Money(required_bid)

\* mutant of Validate: a bid equal to the required minimum is rejected too
Validate_StrictlyAbove(row, d, t) ==
    IF row = NoValue THEN "Auction not found"
    ELSE IF row[1].status # "ACTIVE" THEN "Auction is " \o row[1].status
    ELSE IF t > row[1].end_time THEN "Auction has ended"
    ELSE IF row[1].current_winner_id = d.user_id THEN "You are already the highest bidder"
    ELSE IF d.bid_amount <= row[1].current_price + row[1].min_increment
         THEN BidTooLow(row[1].current_price + row[1].min_increment)
    ELSE ""

\* bid_worker.py:92-112: the reason process_bid raises for, or "" when the
\* request passes validation against the row the query returned
Validate(row, d, t) ==
    IF row = NoValue THEN "Auction not found"
    ELSE IF row[1].status # "ACTIVE" THEN "Auction is " \o row[1].status
    ELSE IF t > row[1].end_time THEN "Auction has ended"
    ELSE IF row[1].current_winner_id = d.user_id THEN "You are already the highest bidder"
    ELSE IF d.bid_amount < row[1].current_price + row[1].min_increment
         THEN BidTooLow(row[1].current_price + row[1].min_increment)
    ELSE ""

\* mutant of RejectedRow: every rejection marks the auction ENDED
RejectedRow_AlwaysEnded(row, why) == [row EXCEPT !.status = "ENDED"]

\* bid_worker.py:99-103: what the rejecting path writes back to the row it
\* loaded: an expired auction is set to ENDED and committed, nothing else is
RejectedRow(row, why) ==
    IF why = "Auction has ended" THEN [row EXCEPT !.status = "ENDED"] ELSE row

\* history: the tag for a change of an auction row from old to new
RowChange(old, new) ==
    IF new = old THEN {}
    ELSE IF [new EXCEPT !.status = old.status] = old THEN {"auction_status"}
    ELSE {"auction_row"}

\* mutant of ProcessBid: the row is taken from the cache entry when there is one
ProcessBid_FromCache(w) ==
    /\ pc[w] = "process"
    /\ LET a == wauction[w]
           id == bid_data[w].bid_id
           row == IF a \in DOMAIN cache /\ a \in DOMAIN auctions
                  THEN Some([k \in DOMAIN auctions[a] |-> cache[a].json[k]])
                  ELSE Get(auctions, a)
           why == Validate(row, bid_data[w], now)
       IN IF why = ""
          THEN /\ loaded' = [loaded EXCEPT ![w] = row]
               /\ pc' = [pc EXCEPT ![w] = "commit"]
               /\ UNCHANGED <<auctions, error, effects>>
          ELSE /\ error' = [error EXCEPT ![w] = Some(why)]
               /\ pc' = [pc EXCEPT ![w] = "release"]
               /\ IF row = NoValue
                  THEN UNCHANGED <<auctions, effects>>
                  ELSE /\ auctions' = [auctions EXCEPT ![a] = RejectedRow(@, why)]
                       /\ effects' = [effects EXCEPT ![id] =
                                         @ \cup RowChange(auctions[a], auctions'[a])]
               /\ UNCHANGED loaded
    /\ UNCHANGED <<pubsubVars, apiVars, now, bids, redisVars, producerVars, wauction, bid_data, lock_token,
                   attempt, result, readerVars, enqLog, deqLog, timedOut, lastRelease>>

\* bid_worker.py:87-112: query the auction row, validate; an expired auction
\* is set to ENDED and committed before raising
ProcessBid(w) ==
    /\ pc[w] = "process"
    /\ LET a == wauction[w]
           id == bid_data[w].bid_id
           row == Get(auctions, a)
           why == Validate(row, bid_data[w], now)
       IN IF why = ""
          THEN /\ loaded' = [loaded EXCEPT ![w] = row]
               /\ pc' = [pc EXCEPT ![w] = "commit"]
               /\ UNCHANGED <<auctions, error, effects>>
          ELSE /\ error' = [error EXCEPT ![w] = Some(why)]
               /\ pc' = [pc EXCEPT ![w] = "release"]
               /\ IF row = NoValue
                  THEN UNCHANGED <<auctions, effects>>
                  ELSE /\ auctions' = [auctions EXCEPT ![a] = RejectedRow(@, why)]
                       /\ effects' = [effects EXCEPT ![id] =
                                         @ \cup RowChange(auctions[a], auctions'[a])]
               /\ UNCHANGED loaded
    /\ UNCHANGED <<pubsubVars, apiVars, now, bids, redisVars, producerVars, wauction, bid_data, lock_token,
                   attempt, result, readerVars, enqLog, deqLog, timedOut, lastRelease>>

\* bid_worker.py:114-133: the values assigned to the loaded row are flushed as
\* one UPDATE of the changed columns plus the INSERT of the Bid, in one commit
CommitRow(cur, old, d) ==
    [cur EXCEPT !.current_price = d.bid_amount,
                !.current_winner_id = d.user_id,
                !.total_bids = old.total_bids + 1]

BidRow(old, d) ==
    [auction_id |-> d.auction_id, user_id |-> d.user_id,
     bid_amount |-> d.bid_amount, previous_price |-> old.current_price]

Commit(w) ==
    /\ pc[w] = "commit"
    /\ LET a == wauction[w]
           old == loaded[w][1]
           d == bid_data[w]
       IN /\ auctions' = [auctions EXCEPT ![a] = CommitRow(@, old, d)]
          /\ bids' = Append(bids, BidRow(old, d))
          /\ result' = [result EXCEPT ![w] =
                           Some(SuccessResult(d.bid_amount, auctions'[a].current_price))]
    /\ effects' = [effects EXCEPT ![bid_data[w].bid_id] =
                      @ \cup RowChange(auctions[wauction[w]], auctions'[wauction[w]])
                        \cup {"bid_insert"}]
    /\ pc' = [pc EXCEPT ![w] = "invalidate"]
    /\ UNCHANGED <<pubsubVars, apiVars, now, redisVars, producerVars, wauction, bid_data, lock_token, attempt,
                   loaded, error, readerVars, enqLog, deqLog, timedOut, lastRelease>>

\* bid_worker.py:179, cache_manager.py:89-102: DEL auction:{auction_id}
Invalidate(w) ==
    /\ pc[w] = "invalidate"
    /\ cache' = invalidate(cache, wauction[w])
    /\ AddEffect(w, "cache_delete")
    /\ pc' = [pc EXCEPT ![w] = "set_success"]
    /\ UNCHANGED <<pubsubVars, apiVars, storeVars, bid_queue, bid_meta, auction_lock, published, uuid, budget,
                   producerVars, wauction, bid_data, lock_token, attempt, loaded, error,
                   result, readerVars, enqLog, deqLog, timedOut, lastRelease>>

\* bid_worker.py:183
SetSuccess(w) ==
    /\ pc[w] = "set_success"
    /\ bid_meta' = update_bid_status(bid_meta, bid_data[w].bid_id, "SUCCESS", result[w])
    /\ pc' = [pc EXCEPT ![w] = "publish"]
    /\ UNCHANGED <<pubsubVars, apiVars, storeVars, bid_queue, auction_lock, cache, published, uuid, budget,
                   producerVars, wauction, bid_data, lock_token, attempt, loaded, error,
                   result, readerVars, historyVars>>

\* bid_worker.py:186-198, pubsub.py:223-232: the recent-bids query and the
\* PUBLISH; either may raise (store or Redis unavailable), which leaves the
\* with-block through lock.py:75-76 and reaches bid_worker.py:208
Publish(w) ==
    /\ pc[w] = "publish"
    /\ \/ /\ published' = [published EXCEPT ![wauction[w]] =
                              Append(@, [type |-> "NEW_BID", auction_id |-> wauction[w],
                                         user_id |-> bid_data[w].user_id,
                                         bid_amount |-> bid_data[w].bid_amount])]
          /\ AddEffect(w, "publish")
          /\ UNCHANGED error
       \/ /\ error' = [error EXCEPT ![w] = Some("Error publishing")]
          /\ UNCHANGED <<published, effects>>
    /\ pc' = [pc EXCEPT ![w] = "release"]
    /\ UNCHANGED <<pubsubVars, apiVars, storeVars, bid_queue, bid_meta, auction_lock, cache, uuid, budget,
                   producerVars, wauction, bid_data, lock_token, attempt, loaded,
                   result, readerVars, enqLog, deqLog, timedOut, lastRelease>>

\* mutant of Release: the release is not in a finally and an exception in the
\* with-block skips it
Release_OnSuccessOnly(w) ==
    /\ pc[w] = "release"
    /\ auction_lock' = IF error[w] = NoValue
                       THEN unlock_script(auction_lock, wauction[w], lock_token[w])
                       ELSE auction_lock
    /\ IF error[w] = NoValue
       THEN /\ pc' = [pc EXCEPT ![w] = "dequeue"]
            /\ ResetLocals(w)
       ELSE /\ pc' = [pc EXCEPT ![w] = "set_rejected"]
            /\ UNCHANGED <<bid_data, lock_token, attempt, loaded, error, result>>
    /\ UNCHANGED <<pubsubVars, apiVars, storeVars, bid_queue, bid_meta, cache, published, uuid, budget, producerVars,
                   wauction, readerVars, historyVars>>

\* lock.py:73-76, 54-59: the context manager's finally; then either the next
\* loop iteration or, with an exception in flight, the handler of line 208
Release(w) ==
    /\ pc[w] = "release"
    /\ auction_lock' = unlock_script(auction_lock, wauction[w], lock_token[w])
    /\ IF error[w] = NoValue
       THEN /\ pc' = [pc EXCEPT ![w] = "dequeue"]
            /\ ResetLocals(w)
       ELSE /\ pc' = [pc EXCEPT ![w] = "set_rejected"]
            /\ UNCHANGED <<bid_data, lock_token, attempt, loaded, error, result>>
    /\ UNCHANGED <<pubsubVars, apiVars, storeVars, bid_queue, bid_meta, cache, published, uuid, budget, producerVars,
                   wauction, readerVars, historyVars>>

\* bid_worker.py:208-219: every exception of the try block is recorded as
\* REJECTED with its message; the loop goes on
SetRejected(w) ==
    /\ pc[w] = "set_rejected"
    /\ bid_meta' = update_bid_status(bid_meta, bid_data[w].bid_id, "REJECTED",
                                     Some(ErrorResult(error[w][1])))
    /\ pc' = [pc EXCEPT ![w] = "dequeue"]
    /\ ResetLocals(w)
    /\ UNCHANGED <<pubsubVars, apiVars, storeVars, bid_queue, auction_lock, cache, published, uuid, budget,
                   producerVars, wauction, readerVars, historyVars>>

\* ---------------------------------------------------------------- environment
\* mutant of px_expire: the key was set without PX and stays
px_expire_NoExpiry(lock, a) == lock

\* lock.py:37-42: the key was set with px=lock_expire_ms, so Redis removes it
\* that long after the SET, whatever its holder is doing
px_expire(lock, a) == Del(lock, a)

LockExpire(a) ==
    /\ a \in DOMAIN auction_lock
    /\ auction_lock' = px_expire(auction_lock, a)
    /\ UNCHANGED <<pubsubVars, apiVars, storeVars, bid_queue, bid_meta, cache, published, uuid, budget,
                   producerVars, workerVars, readerVars, historyVars>>

\* time passes
Tick ==
    /\ now < MaxTime
    /\ now' = now + 1
    /\ UNCHANGED <<pubsubVars, apiVars, auctions, bids, redisVars, producerVars, workerVars, readerVars,
                   historyVars>>

\* ------------------------------------------------------- the pipeline
EnqueueNext ==
    \/ \E a \in Auctions, u \in Users, amt \in Amounts : Lpush(a, u, amt)
    \/ SetexMeta

WorkerNext(w) ==
    \/ \E a \in Auctions : EnterQueue(w, a)
    \/ Dequeue(w)
    \/ Acquire(w)
    \/ ProcessBid(w)
    \/ Commit(w)
    \/ Invalidate(w)
    \/ SetSuccess(w)
    \/ Publish(w)
    \/ Release(w)
    \/ SetRejected(w)

Next ==
    \/ EnqueueNext
    \/ \E w \in Workers : WorkerNext(w)
    \/ \E a \in Auctions : LockExpire(a)
    \/ Tick

Spec == Init /\ [][Next]_vars

\* ------------------------------------------- BidQueue, driven directly
\* queue.py:98-145: a dequeue_bid call that finds a request (a call on an
\* empty list returns None after the timeout and changes nothing)
DequeueBid(a) ==
    /\ Len(bid_queue[queue_key(a)]) > 0
    /\ deqLog' = [deqLog EXCEPT ![a] = Append(@, brpop_value(bid_queue[queue_key(a)]).bid_id)]
    /\ bid_queue' = [bid_queue EXCEPT ![queue_key(a)] = brpop_rest(@)]
    /\ UNCHANGED <<pubsubVars, apiVars, storeVars, bid_meta, auction_lock, cache, published, uuid, budget,
                   producerVars, workerVars, readerVars, enqLog, effects, timedOut,
                   lastRelease>>

NextQueue ==
    \/ EnqueueNext
    \/ \E a \in Auctions : DequeueBid(a)

InitQueue == InitWith(MaxEnqueues)

SpecQueue == InitQueue /\ [][NextQueue]_vars

\* ---------------------------------------- AuctionLock, driven directly
\* lock.py:61-71, 33-34: a caller enters `with lock(auction_id)`: acquire
\* draws its token and starts the retry loop
LockCall(w, a) ==
    /\ pc[w] = "idle"
    /\ uuid < budget
    /\ uuid' = uuid + 1
    /\ lock_token' = [lock_token EXCEPT ![w] = uuid + 1]
    /\ attempt' = [attempt EXCEPT ![w] = 0]
    /\ wauction' = [wauction EXCEPT ![w] = a]
    /\ pc' = [pc EXCEPT ![w] = "lock_acquire"]
    /\ error' = [error EXCEPT ![w] = NoValue]
    /\ result' = [result EXCEPT ![w] = NoValue]
    /\ UNCHANGED <<pubsubVars, apiVars, storeVars, bid_queue, bid_meta, auction_lock, cache, published, budget,
                   producerVars, bid_data, loaded, readerVars, historyVars>>

\* lock.py:36-52: one pass of the retry loop; the caller gets the return value
\* of line 45 or the TimeoutError of line 52
LockAttempt(w) ==
    /\ pc[w] = "lock_acquire"
    /\ LET a == wauction[w]
           how == acquire_outcome(auction_lock, a, attempt[w])
       IN /\ auction_lock' = set_nx(auction_lock, a, lock_token[w])
          /\ attempt' = [attempt EXCEPT ![w] = IF how = "retry" THEN @ + 1 ELSE @]
          /\ pc' = [pc EXCEPT ![w] = CASE how = "acquired" -> "lock_held"
                                       [] how = "retry" -> "lock_acquire"
                                       [] how = "timeout" -> "idle"]
          /\ result' = [result EXCEPT ![w] =
                           IF how = "acquired"
                           THEN Some(acquire_return(lock_token[w], attempt[w])) ELSE @]
          /\ error' = [error EXCEPT ![w] =
                          IF how = "timeout" THEN Some("Could not acquire lock") ELSE @]
    /\ UNCHANGED <<pubsubVars, apiVars, storeVars, bid_queue, bid_meta, cache, published, uuid, budget,
                   producerVars, wauction, bid_data, lock_token, loaded,
                   readerVars, historyVars>>

\* lock.py:73-76, 54-59: the with-body ends and release runs the unlock script
LockRelease(w) ==
    /\ pc[w] = "lock_held"
    /\ auction_lock' = unlock_script(auction_lock, wauction[w], lock_token[w])
    /\ lastRelease' = Some([token |-> lock_token[w],
                            before |-> Get(auction_lock, wauction[w]),
                            after |-> Get(auction_lock', wauction[w])])
    /\ pc' = [pc EXCEPT ![w] = "idle"]
    /\ UNCHANGED <<pubsubVars, apiVars, storeVars, bid_queue, bid_meta, cache, published, uuid, budget,
                   producerVars, wauction, bid_data, lock_token, attempt, loaded, error,
                   result, readerVars, enqLog, deqLog, effects, timedOut>>

NextLock ==
    \/ \E w \in Workers, a \in Auctions : LockCall(w, a)
    \/ \E w \in Workers : LockAttempt(w)
    \/ \E w \in Workers : LockRelease(w)
    \/ \E a \in Auctions : LockExpire(a)

InitLock == InitWith(MaxLockCalls)

SpecLock == InitLock /\ [][NextLock]_vars

\* ------------------------------------ AuctionLock with a crashing holder
\* lock.py:71-76: the process holding the lock dies inside the with-block,
\* before the finally runs; nothing releases its key
LockCrash(w) ==
    /\ pc[w] = "lock_held"
    /\ pc' = [pc EXCEPT ![w] = "crashed"]
    /\ UNCHANGED <<pubsubVars, apiVars, storeVars, redisVars, producerVars, wauction, bid_data, lock_token,
                   attempt, loaded, error, result, readerVars, historyVars>>

NextWedge ==
    \/ NextLock
    \/ \E w \in Workers : LockCrash(w)

\* Redis expires a key once its PX time has passed, and a caller inside
\* acquire goes on with its loop (lock.py:36-49)
FairWedge ==
    /\ \A a \in Auctions : WF_vars(LockExpire(a))
    /\ \A w \in Workers : WF_vars(LockAttempt(w))

SpecWedge == InitLock /\ [][NextWedge]_vars /\ FairWedge

\* ----------------------------------- process_bid alone, amounts around
\* the threshold
EnqueueAccept ==
    \/ \E a \in Auctions, u \in Users, amt \in AcceptAmounts : Lpush(a, u, amt)
    \/ SetexMeta

NextAccept ==
    \/ EnqueueAccept
    \/ WorkerNext("w1")
    \/ Tick

SpecAccept == Init /\ [][NextAccept]_vars

\* --------------------------------------------- BaseCache.get, with a worker
\* history: the highest bid_amount among the requests of auction a whose
\* status has been written as SUCCESS
SuccessFloor(a) ==
    LET amts == {bid_meta[id].bid_amount : id \in
                    {i \in DOMAIN bid_meta : /\ bid_meta[i].auction_id = a
                                             /\ bid_meta[i].status = "SUCCESS"}}
    IN IF amts = {} THEN 0 ELSE CHOOSE m \in amts : \A n \in amts : n <= m

\* base_cache.py:116, 137: json.dumps of the serialized dict is the string
\* Redis stores, and json.loads of that string is the dict again (to_dict
\* holds ints, floats, strings and None only)
json_dumps(d) == [json |-> d]
json_loads(str) == str.json

\* auction_cache.py:51-53, models/auction.py:37-53: Auction.to_dict, for the
\* columns of the model
to_dict(id, row) ==
    [auction_id |-> id, status |-> row.status, current_price |-> row.current_price,
     current_winner_id |-> row.current_winner_id, total_bids |-> row.total_bids,
     starting_price |-> row.starting_price, min_increment |-> row.min_increment,
     end_time |-> row.end_time]

\* base_cache.py:111-126: GET auction:{id}; a hit counts as one and returns
\* the cached dict, a miss counts as one and goes on to the store
CacheGet(r, a) ==
    /\ rpc[r] = "idle"
    /\ reads[r] < MaxReads
    /\ reads' = [reads EXCEPT ![r] = @ + 1]
    /\ rauction' = [rauction EXCEPT ![r] = a]
    /\ floor' = [floor EXCEPT ![r] = SuccessFloor(a)]
    /\ returned' = [returned EXCEPT ![r] =
                        IF Get(cache, a) # NoValue THEN Some(json_loads(cache[a]))
                        ELSE NoValue]
    /\ rpc' = [rpc EXCEPT ![r] = IF Get(cache, a) # NoValue THEN "idle" ELSE "fetch"]
    /\ hits' = IF Get(cache, a) # NoValue THEN hits + 1 ELSE hits
    /\ misses' = IF Get(cache, a) # NoValue THEN misses ELSE misses + 1
    /\ lastCall' = Call(lastCall.n + 1, "get", <<a>>, NoValue)
    /\ UNCHANGED <<pubsubVars, running, broadcast, storeVars, redisVars, producerVars, workerVars, rdata, historyVars>>

\* mutant of CacheFetch: an entity the store does not have is cached as null
CacheFetch_NegativeCaching(r) ==
    /\ rpc[r] = "fetch"
    /\ rdata' = [rdata EXCEPT ![r] =
                     IF rauction[r] \in DOMAIN auctions
                     THEN Some(to_dict(rauction[r], auctions[rauction[r]]))
                     ELSE Some(NoValue)]
    /\ rpc' = [rpc EXCEPT ![r] = "setex"]
    /\ UNCHANGED <<pubsubVars, apiVars, storeVars, redisVars, producerVars, workerVars, rauction, reads,
                   returned, floor, historyVars>>

\* base_cache.py:128-134, auction_cache.py:29-33, 51-53: the miss queries the
\* store and serializes the row; a missing auction returns None
CacheFetch(r) ==
    /\ rpc[r] = "fetch"
    /\ rdata' = [rdata EXCEPT ![r] =
                     IF rauction[r] \in DOMAIN auctions
                     THEN Some(to_dict(rauction[r], auctions[rauction[r]]))
                     ELSE NoValue]
    /\ rpc' = [rpc EXCEPT ![r] = IF rauction[r] \in DOMAIN auctions THEN "setex" ELSE "idle"]
    /\ UNCHANGED <<pubsubVars, apiVars, storeVars, redisVars, producerVars, workerVars, rauction, reads,
                   returned, floor, historyVars>>

\* base_cache.py:135-141: SETEX the serialized row and return it
CacheSetex(r) ==
    /\ rpc[r] = "setex"
    /\ cache' = Put(cache, rauction[r], json_dumps(rdata[r][1]))
    /\ returned' = [returned EXCEPT ![r] = rdata[r]]
    /\ rdata' = [rdata EXCEPT ![r] = NoValue]
    /\ rpc' = [rpc EXCEPT ![r] = "idle"]
    /\ UNCHANGED <<pubsubVars, apiVars, storeVars, bid_queue, bid_meta, auction_lock, published, uuid, budget,
                   producerVars, workerVars, rauction, reads, floor, historyVars>>

\* cache_manager.py:34-37: the entry was stored with a TTL and Redis drops it
CacheExpire(a) ==
    /\ a \in DOMAIN cache
    /\ cache' = Del(cache, a)
    /\ UNCHANGED <<pubsubVars, apiVars, storeVars, bid_queue, bid_meta, auction_lock, published, uuid, budget,
                   producerVars, workerVars, readerVars, historyVars>>

ReaderNext(r) ==
    \/ \E a \in Auctions : CacheGet(r, a)
    \/ CacheFetch(r)
    \/ CacheSetex(r)

NextCache ==
    \/ EnqueueNext
    \/ WorkerNext("w1")
    \/ \E r \in Readers : ReaderNext(r)
    \/ \E a \in Auctions : CacheExpire(a)

SpecCache == Init /\ [][NextCache]_vars

\* the same with the clock, so that an auction's end_time passes
NextExpiry ==
    \/ NextCache
    \/ Tick

SpecExpiry == Init /\ [][NextExpiry]_vars

\* ------------------------------- BaseCache's methods, with a worker
\* the id lists passed to get_many and invalidate_many
IdLists == UNION {[1..n -> CacheIds] : n \in 0..MaxIds}

\* the elements of a list
Range(ids) == {ids[i] : i \in 1..Len(ids)}

\* mutant of get_many: the entities fetched from the store are returned
\* without being cached
get_many_NoFill(c, db, ids) ==
    LET found == [id \in Range(ids) \cap (DOMAIN c \cup DOMAIN db) |->
                     IF id \in DOMAIN c THEN json_loads(c[id]) ELSE to_dict(id, db[id])]
    IN [result |-> found, cache |-> c, hits |-> 0, misses |-> 0]

\* base_cache.py:156-197, auction_cache.py:35-49: MGET all keys; a cached
\* value is a hit and is parsed; the ids that missed are fetched from the
\* store with one IN query, and each entity found is serialized, SETEX-ed
\* and added to the result. An empty list returns {} at once.
get_many(c, db, ids) ==
    IF ids = <<>> THEN [result |-> EmptyMap, cache |-> c, hits |-> 0, misses |-> 0]
    ELSE LET cached_values == [i \in 1..Len(ids) |-> Get(c, ids[i])]
             hit == {i \in 1..Len(ids) : cached_values[i] # NoValue}
             from_cache == [id \in {ids[i] : i \in hit} |-> json_loads(c[id])]
             missing_ids == {ids[i] : i \in (1..Len(ids)) \ hit}
             missing_entities == [id \in missing_ids \cap DOMAIN db |-> db[id]]
             entity_data == [id \in DOMAIN missing_entities |->
                                to_dict(id, missing_entities[id])]
         IN [result |-> [id \in DOMAIN from_cache \cup DOMAIN entity_data |->
                            IF id \in DOMAIN entity_data THEN entity_data[id]
                            ELSE from_cache[id]],
             cache |-> [id \in DOMAIN c \cup DOMAIN entity_data |->
                           IF id \in DOMAIN entity_data THEN json_dumps(entity_data[id])
                           ELSE c[id]],
             hits |-> Cardinality(hit),
             misses |-> Len(ids) - Cardinality(hit)]

\* base_cache.py:240-253: nothing for an empty list, otherwise one DEL of
\* all the keys
invalidate_many(c, ids) ==
    IF ids = <<>> THEN c ELSE [id \in DOMAIN c \ Range(ids) |-> c[id]]

\* base_cache.py:143-197: a get_many call that runs without another process
\* stepping in between its MGET, its query and its SETEXs
GetMany(ids) ==
    /\ lastCall.n < MaxCacheCalls
    /\ cache' = get_many(cache, auctions, ids).cache
    /\ hits' = hits + get_many(cache, auctions, ids).hits
    /\ misses' = misses + get_many(cache, auctions, ids).misses
    /\ lastCall' = Call(lastCall.n + 1, "get_many", <<ids>>,
                        get_many(cache, auctions, ids).result)
    /\ UNCHANGED <<pubsubVars, running, broadcast, storeVars, bid_queue, bid_meta, auction_lock, published,
                   uuid, budget, producerVars, workerVars, readerVars, historyVars>>

\* base_cache.py:227-238: a direct invalidate call
InvalidateCall(id) ==
    /\ lastCall.n < MaxCacheCalls
    /\ cache' = invalidate(cache, id)
    /\ lastCall' = Call(lastCall.n + 1, "invalidate", <<<<id>>>>, NoValue)
    /\ UNCHANGED <<pubsubVars, hits, misses, running, broadcast, storeVars, bid_queue, bid_meta, auction_lock,
                   published, uuid, budget, producerVars, workerVars, readerVars,
                   historyVars>>

\* base_cache.py:240-253: a direct invalidate_many call
InvalidateManyCall(ids) ==
    /\ lastCall.n < MaxCacheCalls
    /\ cache' = invalidate_many(cache, ids)
    /\ lastCall' = Call(lastCall.n + 1, "invalidate_many", <<ids>>, NoValue)
    /\ UNCHANGED <<pubsubVars, hits, misses, running, broadcast, storeVars, bid_queue, bid_meta, auction_lock,
                   published, uuid, budget, producerVars, workerVars, readerVars,
                   historyVars>>

ReadNext(r) ==
    \/ \E id \in CacheIds : CacheGet(r, id)
    \/ CacheFetch(r)
    \/ CacheSetex(r)

NextRead ==
    \/ EnqueueNext
    \/ WorkerNext("w1")
    \/ \E r \in Readers : ReadNext(r)
    \/ \E ids \in IdLists : GetMany(ids)
    \/ \E id \in CacheIds : InvalidateCall(id)
    \/ \E ids \in IdLists : InvalidateManyCall(ids)
    \/ \E id \in CacheIds : CacheExpire(id)

InitRead == InitOver(MaxCacheRequests, CacheAuctions)

SpecRead == InitRead /\ [][NextRead]_vars

\* ------------------------------------ place_bid_async, with a worker
\* mutant of validate_bid: the amount is not compared with the cached price
validate_bid_NoMinimum(auction_data, bid_amount, t) ==
    IF auction_data = NoValue THEN "Auction not found"
    ELSE IF auction_data[1].status # "ACTIVE" THEN "Auction is " \o auction_data[1].status
    ELSE IF t > auction_data[1].end_time THEN "Auction has ended"
    ELSE ""

\* bid_service.py:56-77: the message of the ValueError validate_bid raises
\* for the dict the cache returned, or "" when it returns
validate_bid(auction_data, bid_amount, t) ==
    IF auction_data = NoValue THEN "Auction not found"
    ELSE IF auction_data[1].status # "ACTIVE" THEN "Auction is " \o auction_data[1].status
    ELSE IF t > auction_data[1].end_time THEN "Auction has ended"
    ELSE IF bid_amount < auction_data[1].current_price + auction_data[1].min_increment
         THEN BidTooLow(auction_data[1].current_price + auction_data[1].min_increment)
    ELSE ""

\* api/bids.py:40-71, bid_service.py:56-104, queue.py:58-79: cache.get_auction
\* has returned to validate_bid (the reader's last get); validate_bid checks
\* the dict and either raises, which the route answers with 400, or returns,
\* and queue_bid's enqueue_bid draws the id and does its LPUSH
PlaceBidAsync(r, u, amt) ==
    /\ rpc[r] = "idle"
    /\ lastCall.op = "get"
    /\ ppc = "idle"
    /\ LET a == rauction[r]
           why == validate_bid(returned[r], amt, now)
       IN IF why = ""
          THEN /\ uuid < budget
               /\ uuid' = uuid + 1
               /\ pdata' = BidData(uuid + 1, a, u, amt)
               /\ bid_queue' = [bid_queue EXCEPT ![queue_key(a)] = lpush(@, pdata')]
               /\ enqLog' = [enqLog EXCEPT ![a] = Append(@, uuid + 1)]
               /\ ppc' = "setex"
               /\ lastCall' = Call(lastCall.n, "place_bid_async", <<a, u, amt>>,
                                   [code |-> 200, detail |-> "", bid_id |-> uuid + 1])
          ELSE /\ lastCall' = Call(lastCall.n, "place_bid_async", <<a, u, amt>>,
                                   [code |-> 400, detail |-> why, bid_id |-> 0])
               /\ UNCHANGED <<uuid, pdata, bid_queue, enqLog, ppc>>
    /\ UNCHANGED <<pubsubVars, hits, misses, running, broadcast, storeVars, bid_meta,
                   auction_lock, cache, published, budget, workerVars, readerVars,
                   deqLog, effects, timedOut, lastRelease>>

NextGate ==
    \/ \E r \in Readers : ReadNext(r)
    \/ \E r \in Readers, u \in Users, amt \in Amounts : PlaceBidAsync(r, u, amt)
    \/ SetexMeta
    \/ WorkerNext("w1")
    \/ \E id \in CacheIds : CacheExpire(id)
    \/ Tick

SpecGate == Init /\ [][NextGate]_vars

\* ------------------------------------ the worker with failures after dequeue
\* bid_worker.py:300-312: only SIGINT/SIGTERM are handled (running = False);
\* a killed or crashed worker process stops where it is, its locals are gone,
\* and a restarted worker begins again in run()
WorkerCrash(w) ==
    /\ pc[w] # "idle"
    /\ pc' = [pc EXCEPT ![w] = "idle"]
    /\ wauction' = [wauction EXCEPT ![w] = 0]
    /\ ResetLocals(w)
    /\ UNCHANGED <<pubsubVars, apiVars, storeVars, redisVars, producerVars, readerVars, historyVars>>

\* bid_worker.py:211-213, 221-228: update_bid_status raises inside the
\* handler (Redis unavailable); the outer except logs it, the session is
\* closed and process_auction_queue returns to run()
StatusWriteFails(w) ==
    /\ pc[w] = "set_rejected"
    /\ pc' = [pc EXCEPT ![w] = "idle"]
    /\ wauction' = [wauction EXCEPT ![w] = 0]
    /\ ResetLocals(w)
    /\ UNCHANGED <<pubsubVars, apiVars, storeVars, redisVars, producerVars, readerVars, historyVars>>

NextCrash ==
    \/ EnqueueNext
    \/ WorkerNext("w1")
    \/ WorkerCrash("w1")
    \/ StatusWriteFails("w1")
    \/ Tick

SpecCrash == Init /\ [][NextCrash]_vars

\* ------------------------------------------ requests under a fair worker
\* mutant of ttl_expire: the key was written without a TTL and stays
ttl_expire_Persist(meta, id) == meta

\* queue.py:85-89, 212-216: bid_meta:{bid_id} is only ever written by SETEX
\* with BID_QUEUE_TTL, so Redis removes the key when the TTL has run out
ttl_expire(meta, id) == Del(meta, id)

MetaExpire(id) ==
    /\ id \in DOMAIN bid_meta
    /\ bid_meta' = ttl_expire(bid_meta, id)
    /\ UNCHANGED <<pubsubVars, apiVars, storeVars, bid_queue, auction_lock, cache, published, uuid, budget,
                   producerVars, workerVars, readerVars, historyVars>>

NextLive ==
    \/ EnqueueNext
    \/ WorkerNext("w1")
    \/ \E id \in 1..MaxRequests : MetaExpire(id)

\* one worker that keeps running (bid_worker.py:247-270), an enqueue_bid that
\* returns, and Redis expiring each key once its TTL has passed
FairLive ==
    /\ WF_vars(WorkerNext("w1"))
    /\ WF_vars(SetexMeta)
    /\ \A id \in 1..MaxRequests : WF_vars(MetaExpire(id))

SpecLive == Init /\ [][NextLive]_vars /\ FairLive

\* ------------------------------- BidQueue's methods over two auctions
\* the result arguments tried: None, an empty dict, and the two dicts the
\* worker passes
Results == {NoValue, Some(EmptyMap), Some(SuccessResult(110, 110)),
            Some(ErrorResult("Auction has ended"))}

\* mutant of status_endpoint: an unknown id is answered as a rejected request
status_endpoint_UnknownIsRejected(meta, id) ==
    IF get_bid_status(meta, id) = NoValue
    THEN [code |-> 200,
          body |-> Some([bid_id |-> id, auction_id |-> 0, user_id |-> 0, bid_amount |-> 0,
                         status |-> "REJECTED", result |-> NoValue])]
    ELSE [code |-> 200, body |-> get_bid_status(meta, id)]

\* api/bids.py:75-83: GET /bids/{bid_id}/status: 404 when get_bid_status
\* returned nothing, otherwise the metadata
status_endpoint(meta, id) ==
    IF get_bid_status(meta, id) = NoValue
    THEN [code |-> 404, body |-> NoValue]
    ELSE [code |-> 200, body |-> get_bid_status(meta, id)]

\* queue.py:182-218: a direct update_bid_status call
UpdateStatus(id, status, res) ==
    /\ lastCall.n < MaxCalls
    /\ bid_meta' = update_bid_status(bid_meta, id, status, res)
    /\ lastCall' = Call(lastCall.n + 1, "update_bid_status", <<id, status, res>>, NoValue)
    /\ UNCHANGED <<pubsubVars, hits, misses, running, broadcast, storeVars, bid_queue, auction_lock, cache,
                   published, uuid, budget, producerVars, workerVars, readerVars,
                   historyVars>>

\* api/bids.py:75-83, queue.py:148-179: a status poll; changes nothing
GetBidStatus(id) ==
    /\ lastCall.n < MaxCalls
    /\ lastCall' = Call(lastCall.n + 1, "get_bid_status", <<id>>,
                        status_endpoint(bid_meta, id))
    /\ UNCHANGED <<pubsubVars, hits, misses, running, broadcast, pipelineVars>>

\* queue.py:98-145: a dequeue_bid call: BRPOP returns the tail element, or
\* nothing when the list stayed empty for the whole timeout
DequeueCall(a) ==
    /\ lastCall.n < MaxCalls
    /\ LET q == bid_queue[queue_key(a)]
       IN IF Len(q) > 0
          THEN /\ bid_queue' = [bid_queue EXCEPT ![queue_key(a)] = brpop_rest(q)]
               /\ deqLog' = [deqLog EXCEPT ![a] = Append(@, brpop_value(q).bid_id)]
               /\ lastCall' = Call(lastCall.n + 1, "dequeue_bid", <<a>>,
                                   Some(brpop_value(q)))
          ELSE /\ lastCall' = Call(lastCall.n + 1, "dequeue_bid", <<a>>, NoValue)
               /\ UNCHANGED <<bid_queue, deqLog>>
    /\ UNCHANGED <<pubsubVars, hits, misses, running, broadcast, storeVars, bid_meta, auction_lock, cache,
                   published, uuid, budget, producerVars, workerVars, readerVars,
                   enqLog, effects, timedOut, lastRelease>>

EnqueueApi ==
    \/ \E a \in QueueAuctions, u \in Users, amt \in Amounts : Lpush(a, u, amt)
    \/ SetexMeta

NextApi ==
    \/ EnqueueApi
    \/ \E a \in QueueAuctions : DequeueCall(a)
    \/ \E id \in 1..MaxRequests, status \in Statuses, res \in Results :
          UpdateStatus(id, status, res)
    \/ \E id \in 1..MaxRequests : GetBidStatus(id)
    \/ \E id \in 1..MaxRequests : MetaExpire(id)

InitApi == InitOver(MaxRequests, QueueAuctions)

SpecApi == InitApi /\ [][NextApi]_vars

\* ------------------------- one worker, two auctions, producers that go on
\* the bid ids in use at once; uuid4 draws an id that is not in use, and an
\* id whose request is gone from queue, worker and metadata is as good as new
IdPool == 1..MaxLive

InQueueOf(a, id) == \E i \in 1..Len(bid_queue[a]) : bid_queue[a][i].bid_id = id

InUse(id) ==
    \/ \E a \in QueueAuctions : InQueueOf(a, id)
    \/ \E w \in Workers : bid_data[w].bid_id = id
    \/ id \in DOMAIN bid_meta

\* queue.py:58-79: the LPUSH of enqueue_bid with the id uuid4 drew; the
\* enqueue history is not kept, so that producers can go on for ever
LpushFresh(a, u, amt, id) ==
    /\ ppc = "idle"
    /\ ~InUse(id)
    /\ pdata' = BidData(id, a, u, amt)
    /\ bid_queue' = [bid_queue EXCEPT ![queue_key(a)] = lpush(@, pdata')]
    /\ ppc' = "setex"
    /\ UNCHANGED <<pubsubVars, apiVars, storeVars, bid_meta, auction_lock, cache, published,
                   uuid, budget, workerVars, readerVars, historyVars>>

\* bid_worker.py:246-270, 146-228: the worker's steps, over both auctions
DrainNext(w) ==
    \/ \E a \in QueueAuctions : EnterQueue(w, a)
    \/ running[w] /\ DequeueStep(w, FALSE, "dequeue")
    \/ Acquire(w)
    \/ ProcessBid(w)
    \/ Commit(w)
    \/ Invalidate(w)
    \/ SetSuccess(w)
    \/ Publish(w)
    \/ Release(w)
    \/ SetRejected(w)

NextStarve ==
    \/ \E a \in QueueAuctions, u \in Users, id \in IdPool :
          LpushFresh(a, u, StartingPrice + MinIncrement, id)
    \/ SetexMeta
    \/ DrainNext("w1")
    \/ \E id \in IdPool : MetaExpire(id)

\* the worker process keeps running its loop (bid_worker.py:247), each pass
\* of which visits every ACTIVE auction (bid_worker.py:259-267); an
\* enqueue_bid that has pushed goes on to its SETEX. Nothing obliges a
\* producer to enqueue, or a key to expire at a particular moment.
FairStarve ==
    /\ WF_vars(DrainNext("w1"))
    /\ \A a \in QueueAuctions : SF_vars(EnterQueue("w1", a))
    /\ WF_vars(SetexMeta)

InitStarve == InitOver(MaxLive, QueueAuctions)

SpecStarve == InitStarve /\ [][NextStarve]_vars /\ FairStarve

\* --------------------------------------------- the worker and its shutdown
\* bid_worker.py:301-307: SIGINT or SIGTERM: the handler, which Python runs
\* between two bytecodes of the main thread (a blocked BRPOP is resumed after
\* it), clears the flag
signal_handler(w) ==
    /\ running[w]
    /\ running' = [running EXCEPT ![w] = FALSE]
    /\ UNCHANGED <<pipelineVars, pubsubVars, hits, misses, lastCall, broadcast>>

\* bid_worker.py:158: `while self.running:` of process_auction_queue: go on
\* to the dequeue_bid call, or leave the loop and return to run()
LoopTest(w) ==
    /\ pc[w] = "dequeue"
    /\ pc' = [pc EXCEPT ![w] = IF running[w] THEN "brpop" ELSE "idle"]
    /\ wauction' = [wauction EXCEPT ![w] = IF running[w] THEN @ ELSE 0]
    /\ UNCHANGED <<pubsubVars, apiVars, storeVars, redisVars, producerVars, bid_data, lock_token,
                   attempt, loaded, error, result, readerVars, historyVars>>

\* bid_worker.py:247, 272-284: run() is between two passes, finds the flag
\* cleared, and ends through its finally
RunExit(w) ==
    /\ pc[w] = "idle"
    /\ ~running[w]
    /\ pc' = [pc EXCEPT ![w] = "stopped"]
    /\ UNCHANGED <<pubsubVars, apiVars, storeVars, redisVars, producerVars, wauction, bid_data,
                   lock_token, attempt, loaded, error, result, readerVars, historyVars>>

\* bid_worker.py:146-284: the worker's steps, with the loop test and the
\* BRPOP of dequeue_bid as two steps
StopNext(w) ==
    \/ \E a \in Auctions : EnterQueue(w, a)
    \/ LoopTest(w)
    \/ DequeueStep(w, TRUE, "brpop")
    \/ Acquire(w)
    \/ ProcessBid(w)
    \/ Commit(w)
    \/ Invalidate(w)
    \/ SetSuccess(w)
    \/ Publish(w)
    \/ Release(w)
    \/ SetRejected(w)
    \/ RunExit(w)

NextStop ==
    \/ EnqueueNext
    \/ StopNext("w1")
    \/ signal_handler("w1")

SpecStop == Init /\ [][NextStop]_vars

\* ------------------------------------------------------------ PubSubManager
\* Each process runs one asyncio loop: a coroutine runs until its next await,
\* and the coroutines of a process interleave only at their awaits.

\* the local WebSockets of process p for auction x
LocalSockets(p, x) ==
    IF x \in DOMAIN active_connections[p] THEN active_connections[p][x] ELSE {}

\* the WebSockets whose add_connection has returned
Registered(x) ==
    {ws \in 1..connects : \E p \in Procs : ws \in LocalSockets(p, x) /\ <<ws, x>> \notin subscribing[p]}

\* pubsub.py:329-354, 172-173: past `await websocket.accept()`, the socket
\* is added to active_connections[auction_id]; subscribe_to_auction tests
\* `channel not in self.subscriptions` and then awaits pubsub.subscribe, or
\* returns at once when the channel is in the set
AddConnection(p, x) ==
    /\ connects < MaxConnects
    /\ connects' = connects + 1
    /\ delivered' = Append(delivered, <<>>)
    /\ active_connections' = [active_connections EXCEPT ![p] =
                                 Put(@, x, LocalSockets(p, x) \cup {connects + 1})]
    /\ subscribing' = IF x \in subscriptions[p] THEN subscribing
                      ELSE [subscribing EXCEPT ![p] = @ \cup {<<connects + 1, x>>}]
    /\ UNCHANGED <<pipelineVars, apiVars, subscriptions, channel_subs, inbox, unsub_tasks,
                   unsub_await, pubLog>>

\* pubsub.py:173-176: pubsub.subscribe has been awaited: Redis has the
\* subscription, and the channel is added to self.subscriptions
SubscribeDone(p, ws, x) ==
    /\ <<ws, x>> \in subscribing[p]
    /\ subscribing' = [subscribing EXCEPT ![p] = @ \ {<<ws, x>>}]
    /\ channel_subs' = [channel_subs EXCEPT ![p] = @ \cup {x}]
    /\ subscriptions' = [subscriptions EXCEPT ![p] = @ \cup {x}]
    /\ UNCHANGED <<pipelineVars, apiVars, active_connections, inbox, unsub_tasks, unsub_await,
                   connects, delivered, pubLog>>

\* pubsub.py:356-381: remove_connection (synchronous): discard the socket;
\* when the set is empty delete the key and create the unsubscribe task
RemoveConnection(p, ws, x) ==
    /\ ws \in LocalSockets(p, x)
    /\ <<ws, x>> \notin subscribing[p]
    /\ IF LocalSockets(p, x) = {ws}
       THEN /\ active_connections' = [active_connections EXCEPT ![p] = Del(@, x)]
            /\ unsub_tasks' = [unsub_tasks EXCEPT ![p][x] = @ + 1]
       ELSE /\ active_connections' = [active_connections EXCEPT ![p] =
                                         Put(@, x, LocalSockets(p, x) \ {ws})]
            /\ UNCHANGED unsub_tasks
    /\ UNCHANGED <<pipelineVars, apiVars, subscriptions, channel_subs, inbox, subscribing,
                   unsub_await, connects, delivered, pubLog>>

\* pubsub.py:178-190: the unsubscribe task starts: it tests
\* `channel in self.subscriptions` and then awaits pubsub.unsubscribe, or ends
UnsubscribeStart(p, x) ==
    /\ unsub_tasks[p][x] > 0
    /\ unsub_tasks' = [unsub_tasks EXCEPT ![p][x] = @ - 1]
    /\ unsub_await' = IF x \in subscriptions[p]
                      THEN [unsub_await EXCEPT ![p][x] = @ + 1]
                      ELSE unsub_await
    /\ UNCHANGED <<pipelineVars, apiVars, active_connections, subscriptions, channel_subs, inbox,
                   subscribing, connects, delivered, pubLog>>

\* pubsub.py:190-192: pubsub.unsubscribe has been awaited: Redis dropped the
\* subscription, and the channel is removed from self.subscriptions
UnsubscribeDone(p, x) ==
    /\ unsub_await[p][x] > 0
    /\ unsub_await' = [unsub_await EXCEPT ![p][x] = @ - 1]
    /\ channel_subs' = [channel_subs EXCEPT ![p] = @ \ {x}]
    /\ subscriptions' = [subscriptions EXCEPT ![p] = @ \ {x}]
    /\ UNCHANGED <<pipelineVars, apiVars, active_connections, inbox, subscribing, unsub_tasks,
                   connects, delivered, pubLog>>

\* pubsub.py:223-229: PUBLISH: Redis hands the message to every connection
\* subscribed to the channel at that moment
PublishToAuction(x) ==
    /\ Len(pubLog) < MaxPublishes
    /\ LET m == [channel |-> x, id |-> Len(pubLog) + 1]
       IN /\ inbox' = [p \in Procs |->
                          IF x \in channel_subs[p] THEN Append(inbox[p], m) ELSE inbox[p]]
          /\ pubLog' = Append(pubLog, [channel |-> x, id |-> m.id,
                                       observers |-> Registered(x)])
    /\ UNCHANGED <<pipelineVars, apiVars, active_connections, subscriptions, channel_subs,
                   subscribing, unsub_tasks, unsub_await, connects, delivered>>

\* pubsub.py:259-282, 309-323: the listen loop takes the next message and
\* sends it to each socket in active_connections[auction_id]
ListenLoop(p) ==
    /\ inbox[p] # <<>>
    /\ LET m == Head(inbox[p])
       IN delivered' = [ws \in 1..connects |->
                           IF ws \in LocalSockets(p, m.channel)
                           THEN Append(delivered[ws], m.id) ELSE delivered[ws]]
    /\ inbox' = [inbox EXCEPT ![p] = Tail(@)]
    /\ UNCHANGED <<pipelineVars, apiVars, active_connections, subscriptions, channel_subs,
                   subscribing, unsub_tasks, unsub_await, connects, pubLog>>

NextPubSub ==
    \/ \E p \in Procs, x \in Channels : AddConnection(p, x)
    \/ \E p \in Procs, ws \in 1..MaxConnects, x \in Channels : SubscribeDone(p, ws, x)
    \/ \E p \in Procs, ws \in 1..MaxConnects, x \in Channels : RemoveConnection(p, ws, x)
    \/ \E p \in Procs, x \in Channels : UnsubscribeStart(p, x)
    \/ \E p \in Procs, x \in Channels : UnsubscribeDone(p, x)
    \/ \E x \in Channels : PublishToAuction(x)
    \/ \E p \in Procs : ListenLoop(p)

SpecPubSub == Init /\ [][NextPubSub]_vars

\* ------------------------------- the local broadcast, socket by socket
\* pubsub.py:259-282, 293-303: the listen loop takes the next message and
\* awaits _broadcast_to_local_websockets, which returns at once when the
\* auction has no local connections and otherwise copies the set
ListenTake(p) ==
    /\ inbox[p] # <<>>
    /\ broadcast[p].stage = "idle"
    /\ LET m == Head(inbox[p])
           here == m.channel \in DOMAIN active_connections[p]
       IN broadcast' = [broadcast EXCEPT ![p] =
                           [stage |-> IF here THEN "sending" ELSE "idle",
                            channel |-> m.channel, id |-> m.id,
                            connections |-> LocalSockets(p, m.channel),
                            todo |-> LocalSockets(p, m.channel),
                            disconnected |-> {}]]
    /\ inbox' = [inbox EXCEPT ![p] = Tail(@)]
    /\ UNCHANGED <<pipelineVars, hits, misses, lastCall, running, active_connections,
                   subscriptions, channel_subs, subscribing, unsub_tasks, unsub_await,
                   connects, delivered, pubLog>>

\* mutant of SendJson: no try/except around send_json: the first failure ends
\* the broadcast
SendJson_Unguarded(p, ws, ok) ==
    /\ broadcast[p].stage = "sending"
    /\ ws \in broadcast[p].todo
    /\ delivered' = IF ok THEN [delivered EXCEPT ![ws] = Append(@, broadcast[p].id)]
                     ELSE delivered
    /\ broadcast' = [broadcast EXCEPT ![p] =
                        [@ EXCEPT !.todo = IF ok THEN @ \ {ws} ELSE {},
                                  !.stage = IF ok /\ @ # {ws} THEN "sending" ELSE "idle"]]
    /\ UNCHANGED <<pipelineVars, hits, misses, lastCall, running, active_connections,
                   subscriptions, channel_subs, inbox, subscribing, unsub_tasks,
                   unsub_await, connects, pubLog>>

\* pubsub.py:309-327, 357-381: one `await websocket.send_json` of the loop
\* over the copy returns: the socket got the message (ok) or the call raised
\* and the socket is added to disconnected. After the last one the cleanup
\* loop runs with no await in it: remove_connection for each disconnected
\* socket discards it from the auction's set when the auction still has
\* one, and the call that empties the set deletes it and creates the
\* unsubscribe task.
SendJson(p, ws, ok) ==
    /\ broadcast[p].stage = "sending"
    /\ ws \in broadcast[p].todo
    /\ LET b == broadcast[p]
           x == b.channel
           last == b.todo = {ws}
           disconnected == IF ok THEN b.disconnected ELSE b.disconnected \cup {ws}
           emptied == /\ x \in DOMAIN active_connections[p]
                      /\ LocalSockets(p, x) \ disconnected = {}
                      /\ LocalSockets(p, x) \cap disconnected # {}
       IN /\ delivered' = IF ok THEN [delivered EXCEPT ![ws] = Append(@, b.id)]
                           ELSE delivered
          /\ broadcast' = [broadcast EXCEPT ![p] =
                              [b EXCEPT !.todo = @ \ {ws},
                                        !.disconnected = disconnected,
                                        !.stage = IF last THEN "idle" ELSE "sending"]]
          /\ active_connections' =
                IF last /\ x \in DOMAIN active_connections[p]
                THEN [active_connections EXCEPT ![p] =
                         IF emptied THEN Del(@, x)
                         ELSE Put(@, x, LocalSockets(p, x) \ disconnected)]
                ELSE active_connections
          /\ unsub_tasks' = IF last /\ emptied
                            THEN [unsub_tasks EXCEPT ![p][x] = @ + 1]
                            ELSE unsub_tasks
    /\ UNCHANGED <<pipelineVars, hits, misses, lastCall, running, subscriptions, channel_subs,
                   inbox, subscribing, unsub_await, connects, pubLog>>

\* one server process with its observers, the publisher, and the broadcast
\* with its awaits
NextSend ==
    \/ \E x \in Channels : AddConnection("p1", x)
    \/ \E ws \in 1..MaxConnects, x \in Channels : SubscribeDone("p1", ws, x)
    \/ \E ws \in 1..MaxConnects, x \in Channels : RemoveConnection("p1", ws, x)
    \/ \E x \in Channels : UnsubscribeStart("p1", x)
    \/ \E x \in Channels : UnsubscribeDone("p1", x)
    \/ \E x \in Channels : PublishToAuction(x)
    \/ ListenTake("p1")
    \/ \E ws \in 1..MaxConnects, ok \in BOOLEAN : SendJson("p1", ws, ok)

SpecSend == Init /\ [][NextSend]_vars

\* ================================================================ properties
\* the read-validate-commit section: from the successful SET NX of acquire to
\* the release in the context manager's finally
Section == {"process", "commit", "invalidate", "set_success", "publish", "release"}
InSection(w, a) == wauction[w] = a /\ pc[w] \in Section

BidsOf(a) == SelectSeq(bids, LAMBDA b : b.auction_id = a)
Terminal == {"SUCCESS", "REJECTED"}

\* C1: for every auction, at most one worker at a time is between a
\* successful acquire and the matching release, also after the lock key's
\* expiry has fired while its holder is still processing.
C1_MutualExclusion ==
    \A a \in Auctions : Cardinality({w \in Workers : InSection(w, a)}) <= 1

\* C2: for every auction, in commit order, each Bid record's previous_price
\* is the bid_amount of the record committed just before it, and the first
\* record's previous_price is the starting price.
C2_CommitChaining ==
    \A a \in Auctions :
        \A i \in 1..Len(BidsOf(a)) :
            BidsOf(a)[i].previous_price =
                IF i = 1 THEN auctions[a].starting_price
                ELSE BidsOf(a)[i - 1].bid_amount

\* C3: no step lowers an auction's current_price, and a commit (a step that
\* inserts a Bid) raises it by at least min_increment.
C3_PriceNeverDecreases ==
    [][\A a \in Auctions :
          /\ auctions'[a].current_price >= auctions[a].current_price
          /\ Len(BidsOf(a)') > Len(BidsOf(a)) =>
                auctions'[a].current_price >=
                    auctions[a].current_price + auctions[a].min_increment]_vars

\* C4: whenever no worker is between process_bid's query and its commit, for
\* every auction the number of Bid records equals total_bids and
\* current_price is the bid_amount of the last committed Bid record (the
\* starting price when there is none).
C4_StoreInvariant ==
    (\A w \in Workers : pc[w] # "commit") =>
        \A a \in Auctions :
            /\ Len(BidsOf(a)) = auctions[a].total_bids
            /\ auctions[a].current_price =
                  IF Len(BidsOf(a)) = 0 THEN auctions[a].starting_price
                  ELSE BidsOf(a)[Len(BidsOf(a))].bid_amount

\* C5: the requests of an auction are dequeued in the order in which their
\* LPUSH completed: the dequeue history is a prefix of the enqueue history.
C5_QueueFIFO ==
    \A a \in Auctions :
        /\ Len(deqLog[a]) <= Len(enqLog[a])
        /\ deqLog[a] = SubSeq(enqLog[a], 1, Len(deqLog[a]))

\* C5 witness: two requests have been dequeued while a third is queued
C5_Witness ==
    \E a \in Auctions : Len(deqLog[a]) >= 2 /\ Len(bid_queue[a]) >= 1

\* C6: release deletes the lock key only when the stored value is the
\* caller's token; with any other token the key and its value stay as they are.
C6_OwnerCheckedRelease ==
    lastRelease # NoValue =>
        LET r == lastRelease[1]
        IN IF r.before = Some(r.token) THEN r.after = NoValue ELSE r.after = r.before

\* C6 witness: a release with a stale token ran while another caller's token
\* was stored
C6_Witness ==
    /\ lastRelease # NoValue
    /\ lastRelease[1].before # NoValue
    /\ lastRelease[1].before # Some(lastRelease[1].token)

\* C7: a cache read that started after a request's status was written as
\* SUCCESS returns the auction at or past that commit, never an older
\* current_price.
C7_CacheConsistency ==
    \A r \in Readers :
        (rpc[r] = "idle" /\ returned[r] # NoValue) =>
            returned[r][1].current_price >= floor[r]

\* C8: a bid_meta entry is created with status QUEUED, and once its status is
\* SUCCESS or REJECTED no step changes the status again.
C8_StatusStateMachine ==
    [][\A id \in DOMAIN bid_meta' :
          /\ id \notin DOMAIN bid_meta => bid_meta'[id].status = "QUEUED"
          /\ (id \in DOMAIN bid_meta /\ bid_meta[id].status \in Terminal) =>
                bid_meta'[id].status = bid_meta[id].status]_vars

ValidationReasons ==
    {"Auction not found", "Auction is ENDED", "Auction is CANCELLED",
     "Auction has ended", "You are already the highest bidder"}
        \cup {BidTooLow(p + MinIncrement) : p \in {StartingPrice} \cup Amounts \cup AcceptAmounts}

InQueue(id) ==
    \E a \in Auctions : \E i \in 1..Len(bid_queue[a]) : bid_queue[a][i].bid_id = id

\* C10: a request whose acquire raised TimeoutError and whose metadata
\* exists is, once the worker is done with it, back on its queue or recorded
\* with a status other than REJECTED (and other than the QUEUED it started
\* with: it is not silently dropped).
C10_TimeoutNotRejected ==
    \A id \in timedOut \cap DOMAIN bid_meta :
        \/ \E w \in Workers : bid_data[w].bid_id = id
        \/ InQueue(id)
        \/ bid_meta[id].status \notin {"QUEUED", "REJECTED"}

\* C11: every request that has been dequeued is on its auction's queue
\* again, is being processed by a worker, or has a terminal status, also
\* after a failure or a worker crash between the dequeue and the status write.
C11_NoSilentLoss ==
    \A a \in Auctions : \A i \in 1..Len(deqLog[a]) :
        LET id == deqLog[a][i]
        IN \/ InQueue(id)
           \/ \E w \in Workers : bid_data[w].bid_id = id
           \/ id \in DOMAIN bid_meta /\ bid_meta[id].status \in Terminal

\* C12: under a fair worker, every request whose bid_meta entry exists
\* eventually has status SUCCESS or REJECTED, or the entry expires: no request
\* stays QUEUED forever while its metadata exists.
C12_EventualTerminal ==
    \A id \in 1..MaxRequests :
        (id \in DOMAIN bid_meta) ~>
            (id \notin DOMAIN bid_meta \/ bid_meta[id].status \in Terminal)

\* C12 witness: a request was processed to a terminal status while another
\* request's metadata, written after the worker was done with it, is QUEUED
C12_Witness ==
    \E id, other \in DOMAIN bid_meta :
        /\ bid_meta[id].status \in Terminal
        /\ bid_meta[other].status = "QUEUED"
        /\ ~InQueue(other)
        /\ \A w \in Workers : bid_data[w].bid_id # other

C14_BoundedAcquisition ==
    [][\A w \in Workers :
          (pc[w] = "lock_acquire" /\ <<pc[w], attempt[w]>>' # <<pc[w], attempt[w]>>) =>
              LET a == wauction[w]
              IN /\ attempt[w] < max_retries
                 /\ pc'[w] \in {"lock_held", "lock_acquire", "idle"}
                 /\ pc'[w] = "lock_held" =>
                       /\ a \notin DOMAIN auction_lock
                       /\ auction_lock' = Put(auction_lock, a, lock_token[w])
                       /\ result'[w] = Some([request_id |-> lock_token[w],
                                             retry_count |-> attempt[w]])
                 /\ pc'[w] = "lock_acquire" =>
                       /\ auction_lock' = auction_lock
                       /\ attempt'[w] = attempt[w] + 1
                 /\ pc'[w] = "idle" =>
                       /\ auction_lock' = auction_lock
                       /\ a \in DOMAIN auction_lock
                       /\ attempt[w] = max_retries - 1
                       /\ error'[w] = Some("Could not acquire lock")]_vars

\* C14 witness: an acquire has raised TimeoutError after max_retries passes
\* while another caller's token is stored
C14_Witness ==
    \E w \in Workers :
        /\ pc[w] = "idle"
        /\ error[w] = Some("Could not acquire lock")
        /\ attempt[w] = max_retries - 1
        /\ wauction[w] \in DOMAIN auction_lock
        /\ auction_lock[wauction[w]] # lock_token[w]

\* C15: a caller holding the lock got as retry_count the number of its
\* failed passes: 0 when its first pass set the key, and otherwise (it
\* acquired after the holder released or the key expired) a count above 0 and
\* at most max_retries.
C15_RetryCount ==
    \A w \in Workers :
        pc[w] = "lock_held" =>
            LET rc == result[w][1].retry_count
            IN /\ rc = attempt[w]
               /\ attempt[w] = 0 => rc = 0
               /\ attempt[w] > 0 => (0 < rc /\ rc <= max_retries)

\* C15 witness: two callers raced for one auction; one released and the other
\* then acquired after failed passes
C15_Witness ==
    \E w \in Workers :
        /\ pc[w] = "lock_held"
        /\ result[w][1].retry_count > 0
        /\ lastRelease # NoValue
        /\ lastRelease[1].token # lock_token[w]
        /\ lastRelease[1].before = Some(lastRelease[1].token)

\* C16: a lock key held by a worker that crashed without releasing
\* eventually stops holding that worker's token (the key expires), and once
\* the key is gone an acquire by another worker that is in its retry loop
\* eventually succeeds.
C16_NoPermanentWedge ==
    \A w \in Workers : \A a \in Auctions :
        /\ (pc[w] = "crashed" /\ wauction[w] = a /\ Get(auction_lock, a) = Some(lock_token[w]))
              ~> (Get(auction_lock, a) # Some(lock_token[w]))
        /\ \A o \in Workers \ {w} :
              (pc[w] = "crashed" /\ pc[o] = "lock_acquire" /\ wauction[o] = a
                 /\ a \notin DOMAIN auction_lock)
                 ~> (pc[o] = "lock_held")

\* C16 witness: a holder crashed without releasing and another worker now
\* holds the same auction's lock
C16_Witness ==
    \E w, o \in Workers :
        /\ pc[w] = "crashed"
        /\ pc[o] = "lock_held"
        /\ wauction[o] = wauction[w]
        /\ Get(auction_lock, wauction[o]) = Some(lock_token[o])

\* C19: when process_bid handles a request for an ACTIVE, unexpired auction
\* whose leader is not the submitter, it accepts exactly when bid_amount >=
\* current_price + min_increment; accepting sets current_price to bid_amount,
\* current_winner_id to the submitter and adds exactly 1 to total_bids; a
\* rejection leaves the row alone and its reason, recorded with status
\* REJECTED, names the required minimum.
C19_AcceptanceThreshold ==
    [][\A w \in Workers :
          LET a == wauction[w]
              d == bid_data[w]
              row == auctions[a]
              required == row.current_price + row.min_increment
          IN /\ (/\ pc[w] = "process" /\ pc'[w] # "process"
                 /\ row.status = "ACTIVE" /\ ~(now > row.end_time)
                 /\ row.current_winner_id # d.user_id) =>
                    IF d.bid_amount >= required
                    THEN pc'[w] = "commit" /\ error'[w] = NoValue
                    ELSE /\ pc'[w] = "release"
                         /\ error'[w] = Some("Bid must be at least $"
                                               \o ToString(required) \o ".00")
                         /\ auctions' = auctions /\ bids' = bids
             /\ (pc[w] = "commit" /\ pc'[w] # "commit") =>
                    /\ auctions'[a].current_price = d.bid_amount
                    /\ auctions'[a].current_winner_id = d.user_id
                    /\ auctions'[a].total_bids = row.total_bids + 1
                    /\ Len(bids') = Len(bids) + 1
             /\ (pc[w] = "set_rejected" /\ pc'[w] # "set_rejected"
                 /\ d.bid_id \in DOMAIN bid_meta) =>
                    /\ bid_meta'[d.bid_id].status = "REJECTED"
                    /\ bid_meta'[d.bid_id].result[1].error = error[w][1]]_vars

\* C19 witness: at price 100 and increment 10 a bid of 105 was rejected as
\* below 110 and a bid of 110 was accepted: price 110, one accepted bid
C19_Witness ==
    \E a \in Auctions : \E id \in DOMAIN bid_meta :
        /\ bid_meta[id].status = "REJECTED"
        /\ bid_meta[id].bid_amount = 105
        /\ bid_meta[id].result[1].error = "Bid must be at least $110.00"
        /\ auctions[a].current_price = 110
        /\ auctions[a].total_bids = 1
        /\ Len(BidsOf(a)) = 1

\* C20: of the requests with one bid_amount for one auction, at most one is
\* accepted, however many workers process them: no two Bid records of an
\* auction have the same bid_amount.
C20_SameAmountRace ==
    \A a \in Auctions :
        \A i, j \in 1..Len(BidsOf(a)) :
            i # j => BidsOf(a)[i].bid_amount # BidsOf(a)[j].bid_amount

\* no coroutine of any process is awaiting and no created task is pending
TasksDone ==
    \A p \in Procs :
        /\ subscribing[p] = {}
        /\ \A x \in Channels : unsub_tasks[p][x] = 0 /\ unsub_await[p][x] = 0

\* C18: once all scheduled tasks have run, a process is subscribed to channel
\* auction:X exactly when it has at least one local observer for X.
C18_RefCountedSubscription ==
    TasksDone =>
        \A p \in Procs : \A x \in Channels :
            (x \in channel_subs[p]) <=> (LocalSockets(p, x) # {})

\* how often message id was sent to WebSocket ws
TimesSent(ws, id) == Cardinality({i \in 1..Len(delivered[ws]) : delivered[ws][i] = id})

\* C17: once every task has run and every received message has been
\* broadcast, each publication on X was sent exactly once to every observer
\* that was registered for X when it was published (and is still connected),
\* at most once to anyone, and never to an observer of another auction.
C17_FanoutReach ==
    (TasksDone /\ \A p \in Procs : inbox[p] = <<>>) =>
        \A i \in 1..Len(pubLog) : \A ws \in 1..connects :
            LET m == pubLog[i]
            IN /\ TimesSent(ws, m.id) <= 1
               /\ (ws \in m.observers /\ ws \in Registered(m.channel)) =>
                     TimesSent(ws, m.id) = 1
               /\ (\E y \in Channels \ {m.channel} : ws \in Registered(y)) =>
                     TimesSent(ws, m.id) = 0

\* the requests no worker is processing whose recorded status is terminal
Finished ==
    {id \in DOMAIN bid_meta \cap DOMAIN effects :
        /\ bid_meta[id].status \in Terminal
        /\ \A w \in Workers : bid_data[w].bid_id # id}

\* C22: each request inserts at most one Bid record (the table holds as many
\* records as there are requests that inserted one), a request that is done
\* inserted one exactly when its final status is SUCCESS, and no step changes
\* or deletes a record that was committed.
C22_OneRecordPerAcceptedRequest ==
    [][/\ Len(bids') >= Len(bids)
       /\ SubSeq(bids', 1, Len(bids)) = bids
       /\ Len(bids') = Cardinality({id \in DOMAIN effects' : "bid_insert" \in effects'[id]})
       /\ \A id \in Finished' :
             ("bid_insert" \in effects'[id]) <=> (bid_meta'[id].status = "SUCCESS")]_vars

\* the request ids enqueue_bid has drawn so far
Issued == UNION {{enqLog[a][i] : i \in 1..Len(enqLog[a])} : a \in DOMAIN enqLog}

\* C23: enqueue_bid draws an id no earlier call returned and makes the
\* auction's queue one longer; when it returns, get_bid_status(id) is a QUEUED
\* entry with the call's auction, user and amount; and at all times
\* get_queue_length(auction) is the number of requests enqueued for the
\* auction and not yet dequeued.
C23_EnqueueContract ==
    [][/\ (ppc = "idle" /\ ppc' = "setex") =>
             /\ pdata'.bid_id \notin Issued \cup DOMAIN bid_meta
             /\ get_queue_length(bid_queue', pdata'.auction_id) =
                   get_queue_length(bid_queue, pdata'.auction_id) + 1
       /\ (ppc = "setex" /\ ppc' = "idle") =>
             LET m == get_bid_status(bid_meta', pdata.bid_id)
             IN /\ m # NoValue
                /\ m[1].status = "QUEUED"
                /\ m[1].bid_id = pdata.bid_id
                /\ m[1].auction_id = pdata.auction_id
                /\ m[1].user_id = pdata.user_id
                /\ m[1].bid_amount = pdata.bid_amount
       /\ \A a \in DOMAIN bid_queue :
             get_queue_length(bid_queue', a) = Len(enqLog'[a]) - Len(deqLog'[a])]_vars

\* C23 witness: two enqueue_bid calls for one auction have returned, one of
\* the two requests has been dequeued, and the other is QUEUED
C23_Witness ==
    \E a \in DOMAIN bid_queue :
        /\ ppc = "idle"
        /\ Len(enqLog[a]) = 2
        /\ Len(deqLog[a]) = 1
        /\ get_queue_length(bid_queue, a) = 1
        /\ get_bid_status(bid_meta, enqLog[a][2]) # NoValue
        /\ get_bid_status(bid_meta, enqLog[a][2])[1].status = "QUEUED"

\* C24 as stated: after update_bid_status(id, s, result) on an existing
\* entry, get_bid_status(id) returns status s with result attached and
\* bid_id, auction_id, user_id and bid_amount as before; on a missing entry
\* update_bid_status creates nothing and get_bid_status returns nothing.
C24_StatusRoundTrip ==
    [][(lastCall'.n # lastCall.n /\ lastCall'.op = "update_bid_status") =>
          LET id == lastCall'.arg[1]
              s == lastCall'.arg[2]
              res == lastCall'.arg[3]
              old == get_bid_status(bid_meta, id)
              new == get_bid_status(bid_meta', id)
          IN IF old # NoValue
             THEN /\ new # NoValue
                  /\ new[1].status = s
                  /\ res # NoValue => new[1].result = res
                  /\ new[1].bid_id = old[1].bid_id
                  /\ new[1].auction_id = old[1].auction_id
                  /\ new[1].user_id = old[1].user_id
                  /\ new[1].bid_amount = old[1].bid_amount
             ELSE new = NoValue /\ bid_meta' = bid_meta]_vars

\* C25: a status poll for an id that was never issued, or whose metadata
\* has expired, gets nothing from get_bid_status and 404 from the endpoint:
\* never a record, and so never one with status REJECTED.
C25_ExpiredIsNotRejected ==
    [][(lastCall'.n # lastCall.n /\ lastCall'.op = "get_bid_status") =>
          LET id == lastCall'.arg[1]
              r == lastCall'.ret
          IN /\ id \notin DOMAIN bid_meta =>
                   /\ r.code = 404
                   /\ r.body = NoValue
             /\ id \in DOMAIN bid_meta =>
                   /\ r.code = 200
                   /\ r.body = Some(bid_meta[id])
             /\ bid_meta' = bid_meta]_vars

\* C25 witness: the last poll was for a request whose enqueue_bid had
\* returned and whose metadata has expired since; it got 404
C25_Witness ==
    /\ lastCall.op = "get_bid_status"
    /\ lastCall.ret.code = 404
    /\ lastCall.arg[1] \in Issued
    /\ lastCall.arg[1] \notin DOMAIN bid_meta
    /\ ppc = "idle"

\* C26: a dequeue_bid call on an empty queue returns nothing and changes
\* neither a queue nor a bid_meta entry nor anything else in Redis or the
\* store; a dequeue_bid or enqueue_bid for one auction leaves the queue of
\* every other auction as it was.
C26_DequeueFrame ==
    [][/\ (lastCall'.n # lastCall.n /\ lastCall'.op = "dequeue_bid") =>
             LET a == lastCall'.arg[1]
             IN /\ Len(bid_queue[a]) = 0 =>
                      /\ lastCall'.ret = NoValue
                      /\ <<storeVars, redisVars>>' = <<storeVars, redisVars>>
                /\ Len(bid_queue[a]) > 0 =>
                      /\ lastCall'.ret = Some(bid_queue[a][Len(bid_queue[a])])
                      /\ Len(bid_queue'[a]) = Len(bid_queue[a]) - 1
                      /\ bid_meta' = bid_meta
                /\ \A b \in QueueAuctions \ {a} : bid_queue'[b] = bid_queue[b]
       /\ (ppc = "idle" /\ ppc' = "setex") =>
             \A b \in QueueAuctions \ {pdata'.auction_id} : bid_queue'[b] = bid_queue[b]
       /\ (ppc = "setex" /\ ppc' = "idle") => bid_queue' = bid_queue]_vars

\* C26 witness: the last call was a dequeue_bid that returned nothing on an
\* empty queue while the other auction has a request queued
C26_Witness ==
    /\ lastCall.op = "dequeue_bid"
    /\ lastCall.ret = NoValue
    /\ Len(bid_queue[lastCall.arg[1]]) = 0
    /\ \E b \in QueueAuctions \ {lastCall.arg[1]} : Len(bid_queue[b]) > 0
    /\ bid_meta # EmptyMap

\* C27: each step of BaseCache.get: the GET counts one hit or one miss; a
\* hit returns the cached data and the call ends without a store query; a
\* miss for an entity the store has returns its serialized row and leaves
\* that value under the entity's key; a miss for an entity the store does not
\* have returns nothing and caches nothing.
C27_ReadThroughGet ==
    [][\A r \in Readers :
          LET id == rauction'[r]
          IN /\ (rpc[r] = "idle" /\ reads'[r] # reads[r]) =>
                   /\ hits' + misses' = hits + misses + 1
                   /\ hits' >= hits /\ misses' >= misses
                   /\ cache' = cache
                   /\ IF id \in DOMAIN cache
                      THEN /\ hits' = hits + 1
                           /\ rpc'[r] = "idle"
                           /\ returned'[r] = Some(cache[id].json)
                      ELSE /\ misses' = misses + 1
                           /\ rpc'[r] = "fetch"
             /\ (rpc[r] = "fetch" /\ rpc'[r] # "fetch") =>
                   /\ <<hits', misses'>> = <<hits, misses>>
                   /\ cache' = cache
                   /\ IF id \in DOMAIN auctions
                      THEN /\ rpc'[r] = "setex"
                           /\ rdata'[r][1].auction_id = id
                           /\ rdata'[r][1].current_price = auctions[id].current_price
                           /\ rdata'[r][1].current_winner_id = auctions[id].current_winner_id
                           /\ rdata'[r][1].status = auctions[id].status
                           /\ rdata'[r][1].total_bids = auctions[id].total_bids
                      ELSE /\ rpc'[r] = "idle"
                           /\ returned'[r] = NoValue
             /\ (rpc[r] = "setex" /\ rpc'[r] # "setex") =>
                   /\ <<hits', misses'>> = <<hits, misses>>
                   /\ rpc'[r] = "idle"
                   /\ returned'[r] = rdata[r]
                   /\ DOMAIN cache' = DOMAIN cache \cup {id}
                   /\ cache'[id].json = rdata[r][1]
                   /\ \A k \in DOMAIN cache \ {id} : cache'[k] = cache[k]]_vars

\* C27 witness: the reader's first get missed on an auction of the store and
\* cached it, and its second get has just missed on an id the store does not
\* have: it returned nothing and that id is not cached
C27_Witness ==
    \E r \in Readers :
        /\ rpc[r] = "idle"
        /\ reads[r] = 2
        /\ rauction[r] \notin DOMAIN auctions
        /\ returned[r] = NoValue
        /\ rauction[r] \notin DOMAIN cache
        /\ cache # EmptyMap
        /\ hits = 0
        /\ misses = 2

\* what calling get(id) for each id of the list in turn returns and leaves
\* cached, with none of the calls interleaved with anything (base_cache.py:
\* 111-141): a hit returns the parsed value, a miss on an auction of the store
\* caches and returns its serialized row, any other miss returns None
RECURSIVE SingleGets(_, _, _)
SingleGets(c, db, ids) ==
    IF ids = <<>> THEN [result |-> EmptyMap, cache |-> c]
    ELSE LET id == Head(ids)
             ret == IF id \in DOMAIN c THEN Some(json_loads(c[id]))
                    ELSE IF id \in DOMAIN db THEN Some(to_dict(id, db[id]))
                    ELSE NoValue
             c1 == IF id \in DOMAIN c \/ id \notin DOMAIN db THEN c
                   ELSE Put(c, id, json_dumps(to_dict(id, db[id])))
             rest == SingleGets(c1, db, Tail(ids))
         IN [result |-> IF ret = NoValue THEN rest.result
                        ELSE Put(rest.result, id, ret[1]),
             cache |-> rest.cache]

\* C28: get_many(ids) returns the id -> data mapping, and leaves the cache
\* contents, that one get(id) per id of the list gives from the same cache
\* and store (ids in neither are absent from the mapping); get_many([])
\* returns the empty mapping and changes nothing, the counters included.
C28_BatchEqualsSingles ==
    [][(lastCall'.n # lastCall.n /\ lastCall'.op = "get_many") =>
          LET ids == lastCall'.arg[1]
              one == SingleGets(cache, auctions, ids)
          IN /\ lastCall'.ret = one.result
             /\ cache' = one.cache
             /\ auctions' = auctions
             /\ ids = <<>> =>
                   /\ lastCall'.ret = EmptyMap
                   /\ <<cache, hits, misses>>' = <<cache, hits, misses>>]_vars

\* C28 witness: get_many was called with a cached id whose cached value the
\* store has since moved past, and an id that was not cached; it returned the
\* cached value for the one and the store's row for the other
C28_Witness ==
    /\ lastCall.op = "get_many"
    /\ Len(lastCall.arg[1]) = 2
    /\ DOMAIN lastCall.ret = {1, 2}
    /\ lastCall.ret[1].current_price # auctions[1].current_price
    /\ lastCall.ret[2].current_price = auctions[2].current_price
    /\ hits = 1
    /\ misses = 2

\* the direct calls that invalidate
InvalidateOps == {"invalidate", "invalidate_many"}

\* C29: invalidate(id) and invalidate_many(ids) remove the cache entries of
\* exactly the named ids, write no value, and leave the other entries and the
\* store as they were; the get of an invalidated id that is called next gets
\* the store's row (it is a miss, or finds what a miss would put there); and
\* no step of the worker writes a value into the cache.
C29_InvalidateOnlyDeletes ==
    [][/\ (lastCall'.n # lastCall.n /\ lastCall'.op \in InvalidateOps) =>
             /\ DOMAIN cache' = DOMAIN cache \ Range(lastCall'.arg[1])
             /\ \A k \in DOMAIN cache' : cache'[k] = cache[k]
             /\ storeVars' = storeVars
       /\ \A r \in Readers :
             (/\ rpc[r] = "idle" /\ reads'[r] # reads[r]
              /\ lastCall.op \in InvalidateOps
              /\ rauction'[r] \in Range(lastCall.arg[1])) =>
                 \/ /\ rauction'[r] \notin DOMAIN cache
                    /\ rpc'[r] = "fetch"
                 \/ /\ rauction'[r] \in DOMAIN cache
                    /\ returned'[r] = Some(to_dict(rauction'[r], auctions[rauction'[r]]))
       /\ \A w \in Workers :
             pc'[w] # pc[w] =>
                 \A k \in DOMAIN cache' : k \in DOMAIN cache /\ cache'[k] = cache[k]]_vars

\* C30: a step that commits a Bid record finds the auction's row, as the
\* store holds it at that moment, ACTIVE, not past its end_time, and led by
\* someone other than the submitter (so no two consecutive Bid records of an
\* auction are by one user); and a request that process_bid finds past
\* end_time on an ACTIVE auction sets the row's status to ENDED and leaves
\* with the error that gets it rejected.
C30_CommitGuards ==
    [][\A w \in Workers :
          LET a == wauction[w]
          IN /\ (pc[w] = "commit" /\ Len(bids') > Len(bids)) =>
                   /\ auctions[a].status = "ACTIVE"
                   /\ ~(now > auctions[a].end_time)
                   /\ auctions[a].current_winner_id # bid_data[w].user_id
                   /\ \A i \in 1..(Len(BidsOf(a)') - 1) :
                         BidsOf(a)'[i].user_id # BidsOf(a)'[i + 1].user_id
             /\ (/\ pc[w] = "process" /\ pc'[w] # "process"
                 /\ auctions[a].status = "ACTIVE" /\ now > auctions[a].end_time) =>
                   /\ auctions'[a].status = "ENDED"
                   /\ pc'[w] = "release"
                   /\ error'[w] = Some("Auction has ended")
                   /\ bids' = bids]_vars

\* C21: under a fair worker, a request queued for an auction is eventually
\* dequeued, whatever happens on the other auction's queue, producers that
\* keep that queue non-empty included.
C21_CrossAuctionIndependence ==
    \A b \in QueueAuctions : \A id \in IdPool :
        InQueueOf(b, id) ~> ~InQueueOf(b, id)

\* worker w holds the lock of the auction it is processing
HoldsLock(w) == Get(auction_lock, wauction[w]) = Some(lock_token[w])

\* C31: for an accepted request the worker's effects come in the order store
\* commit, cache invalidation, SUCCESS status write, publish, each of them
\* made while the worker holds the auction's lock; a message is published only
\* for a committed bid and at most once per committed bid.
C31_SuccessPathOrdering ==
    [][\A w \in Workers :
          LET id == bid_data[w].bid_id
              a == wauction[w]
          IN /\ (pc[w] = "commit" /\ pc'[w] # "commit") =>
                   /\ HoldsLock(w)
                   /\ effects[id] \cap {"cache_delete", "publish"} = {}
             /\ (pc[w] = "invalidate" /\ pc'[w] # "invalidate") =>
                   /\ HoldsLock(w)
                   /\ "bid_insert" \in effects[id]
                   /\ "publish" \notin effects[id]
             /\ (pc[w] = "set_success" /\ pc'[w] # "set_success") =>
                   /\ HoldsLock(w)
                   /\ {"bid_insert", "cache_delete"} \subseteq effects[id]
                   /\ "publish" \notin effects[id]
             /\ (pc[w] = "publish" /\ published' # published) =>
                   /\ HoldsLock(w)
                   /\ {"bid_insert", "cache_delete"} \subseteq effects[id]
                   /\ "publish" \notin effects[id]
                   /\ Len(published'[a]) <= Len(BidsOf(a))
             /\ (pc[w] # "publish" \/ pc'[w] = "publish") =>
                   (published' = published \/ \E o \in Workers \ {w} : pc[o] = "publish")]_vars

Dequeued == UNION {{deqLog[a][i] : i \in 1..Len(deqLog[a])} : a \in DOMAIN deqLog}

\* C33: once a worker's running flag is cleared it dequeues no further
\* request; and when its run() has ended, every request that was dequeued and
\* whose metadata exists has a terminal status and no lock key holds a token
\* of the worker.
C33_CooperativeShutdown ==
    [][\A w \in Workers :
          /\ ~running[w] => (bid_data'[w] = bid_data[w] \/ bid_data'[w] = NoBid)
          /\ pc'[w] = "stopped" =>
                /\ \A id \in Dequeued' \cap DOMAIN bid_meta' :
                      bid_meta'[id].status \in Terminal
                /\ \A a \in DOMAIN auction_lock' : auction_lock'[a] \notin Dequeued']_vars

\* C34: every request on an auction's queue has its bid_meta entry, and a
\* terminal status a worker has recorded is not overwritten by the QUEUED
\* write of enqueue_bid, however the LPUSH and the SETEX of enqueue_bid
\* interleave with a worker's dequeue and status write. (No metadata key
\* expires in this specification.)
C34_MetadataPrecedesVisibility ==
    [][/\ \A a \in DOMAIN bid_queue' : \A i \in 1..Len(bid_queue'[a]) :
             bid_queue'[a][i].bid_id \in DOMAIN bid_meta'
       /\ \A id \in DOMAIN bid_meta \cap DOMAIN bid_meta' :
             bid_meta[id].status \in Terminal => bid_meta'[id].status # "QUEUED"
       /\ \A w \in Workers :
             (pc[w] \in {"set_success", "set_rejected"} /\ pc'[w] # pc[w]) =>
                 /\ bid_data[w].bid_id \in DOMAIN bid_meta'
                 /\ bid_meta'[bid_data[w].bid_id].status \in Terminal]_vars

\* C35: with several workers draining one auction's queue, no request is
\* handed out twice: the dequeue history never repeats a bid id, a request
\* that was dequeued is no longer on the queue and no two workers hold the
\* same request; process_bid runs for a request that no other worker holds,
\* and a commit is the first and only Bid insert of its request.
C35_AtMostOnce ==
    [][/\ \A a \in DOMAIN deqLog' : \A i, j \in 1..Len(deqLog'[a]) :
             i # j => deqLog'[a][i] # deqLog'[a][j]
       /\ \A id \in Dequeued' : \A a \in DOMAIN bid_queue' :
             \A i \in 1..Len(bid_queue'[a]) : bid_queue'[a][i].bid_id # id
       /\ \A w \in Workers :
             /\ (pc[w] = "process" /\ pc'[w] # "process") =>
                    \A o \in Workers \ {w} : bid_data[o].bid_id # bid_data[w].bid_id
             /\ (pc[w] = "commit" /\ pc'[w] # "commit") =>
                    /\ "bid_insert" \notin effects[bid_data[w].bid_id]
                    /\ Len(bids') = Len(bids) + 1
       /\ Len(bids') <= Cardinality(Dequeued')]_vars

\* C35 witness: two workers drained one auction's queue at the same time and
\* each holds a different one of its two requests
C35_Witness ==
    \E a \in Auctions : \E w, o \in Workers :
        /\ w # o
        /\ wauction[w] = a /\ wauction[o] = a
        /\ bid_data[w] # NoBid /\ bid_data[o] # NoBid
        /\ bid_data[w].bid_id # bid_data[o].bid_id
        /\ Len(deqLog[a]) = 2

\* C36: the requests of one auction are evaluated by process_bid in the order
\* in which they were dequeued, also with several workers: when a worker
\* evaluates a request, no other worker holds a request of that auction that
\* was dequeued earlier and is still waiting for the lock or being evaluated.
C36_EvaluationOrder ==
    [][\A w \in Workers :
          (pc[w] = "process" /\ pc'[w] # "process") =>
              \A o \in Workers \ {w} :
                  (wauction[o] = wauction[w] /\ pc[o] \in {"acquire", "process"}) =>
                      ~ \E i, j \in 1..Len(deqLog[wauction[w]]) :
                            /\ i < j
                            /\ deqLog[wauction[w]][i] = bid_data[o].bid_id
                            /\ deqLog[wauction[w]][j] = bid_data[w].bid_id]_vars

\* C37: once the worker has set an expired auction to ENDED in the store
\* while rejecting a request, a cache read of that auction that starts
\* afterwards does not return status ACTIVE.
C37_EndedVisibleToReaders ==
    [][\A r \in Readers :
          (/\ rpc[r] = "idle" /\ reads'[r] # reads[r]
           /\ auctions[rauction'[r]].status = "ENDED"
           /\ returned'[r] # NoValue) =>
               returned'[r][1].status # "ACTIVE"]_vars

\* the statuses of an auction that is closed
Closed == {"ENDED", "CANCELLED"}

\* C38: once an auction's row has status ENDED or CANCELLED, no step changes
\* the row (current_price, current_winner_id, total_bids, status) and no Bid
\* record is inserted for the auction, whatever is on its queue.
C38_ClosedAuctionsFrozen ==
    [][\A a \in DOMAIN auctions :
          auctions[a].status \in Closed =>
              /\ auctions'[a] = auctions[a]
              /\ BidsOf(a)' = BidsOf(a)]_vars

\* C39: when a broadcast of a message for auction X ends on a process, every
\* socket of the copy it iterated whose send_json did not fail has been sent
\* the message exactly once and the failing ones not at all, X's local set
\* has lost exactly the failing sockets, and the sets of the other auctions
\* are as they were; the sends before the last change no set.
C39_SendFailureIsolation ==
    [][\A p \in Procs :
          LET b == broadcast[p]
              x == b.channel
              failed == broadcast'[p].disconnected
          IN /\ (b.stage = "sending" /\ broadcast'[p].stage = "idle") =>
                   /\ \A ws \in b.connections \ failed : TimesSent(ws, b.id)' = 1
                   /\ \A ws \in failed : TimesSent(ws, b.id)' = 0
                   /\ LocalSockets(p, x)' = LocalSockets(p, x) \ failed
                   /\ \A y \in Channels \ {x} : LocalSockets(p, y)' = LocalSockets(p, y)
             /\ (b.stage = "sending" /\ broadcast'[p].stage = "sending"
                 /\ broadcast'[p].todo # b.todo) =>
                   active_connections' = active_connections]_vars

\* C39 witness: the last broadcast on a process went to two sockets of one
\* auction, failed for one of them and reached the other, while the process
\* has an observer of the other auction
C39_Witness ==
    \E p \in Procs :
        LET b == broadcast[p]
        IN /\ b.stage = "idle"
           /\ Cardinality(b.connections) = 2
           /\ Cardinality(b.disconnected) = 1
           /\ LocalSockets(p, b.channel) = b.connections \ b.disconnected
           /\ \A ws \in b.connections \ b.disconnected : TimesSent(ws, b.id) = 1
           /\ \E y \in Channels \ {b.channel} : LocalSockets(p, y) # {}

\* C40: a place_bid_async call whose cached snapshot is missing, not ACTIVE,
\* past its end_time or asks more than the amount offered is answered with
\* 400, and it enqueues nothing, creates no bid_meta entry and draws no
\* request id; any other call is given a new id and is put on the auction's
\* queue; and no id is drawn except by a call that passed these checks.
C40_PreValidationGate ==
    [][/\ (lastCall.op = "get" /\ lastCall'.op = "place_bid_async") =>
             LET a == lastCall'.arg[1]
                 amt == lastCall'.arg[3]
                 data == returned[CHOOSE r \in Readers : TRUE]
                 rejected == \/ data = NoValue
                             \/ data[1].status # "ACTIVE"
                             \/ now > data[1].end_time
                             \/ amt < data[1].current_price + data[1].min_increment
             IN IF rejected
                THEN /\ lastCall'.ret.code = 400
                     /\ <<bid_queue, bid_meta, uuid, ppc, pdata, enqLog>>' =
                           <<bid_queue, bid_meta, uuid, ppc, pdata, enqLog>>
                ELSE /\ lastCall'.ret.code = 200
                     /\ lastCall'.ret.bid_id \notin Issued
                     /\ Issued' = Issued \cup {lastCall'.ret.bid_id}
                     /\ Len(bid_queue'[a]) = Len(bid_queue[a]) + 1
                     /\ bid_queue'[a][1].bid_id = lastCall'.ret.bid_id
       /\ (uuid' # uuid \/ Issued' # Issued) =>
             /\ lastCall'.op = "place_bid_async"
             /\ lastCall'.ret.code = 200
       /\ \A id \in DOMAIN bid_meta' \ DOMAIN bid_meta : id \in Issued]_vars

\* C40 witness: the last call offered less than the cached price plus the
\* increment, after an earlier bid had been accepted and cached: it got 400
\* naming the minimum, and nothing of it is queued or recorded
C40_Witness ==
    /\ lastCall.op = "place_bid_async"
    /\ lastCall.ret.code = 400
    /\ lastCall.ret.detail = BidTooLow(StartingPrice + 2 * MinIncrement)
    /\ Len(bids) = 1
    /\ uuid = 1
    /\ \A a \in DOMAIN bid_queue : bid_queue[a] = <<>>
    /\ DOMAIN bid_meta = {1}

====
